---- MODULE Spec2Model ----
(***************************************************************************)
(* Retry helpers (TestUtils, TestHelpers, BasePage) and the TestLogger     *)
(* store of the OrangeHRM Playwright suite, as a state machine.            *)
(*                                                                         *)
(* One helper call runs at a time.  Every action is the code that runs     *)
(* between two await points of the async function: a call runs up to the   *)
(* first await, a continuation runs from a settled promise to the next     *)
(* await (or to the return / throw).                                       *)
(***************************************************************************)
EXTENDS Integers, Sequences, FiniteSets, TLC

\* ------------------------------------------------------------------ bounds
MaxRetriesBound == 3
MaxBaseDelay == 2
MaxMultiplier == 2
MaxMaxDelay == 4
MaxLogs == 3
MaxPriorLogs == 1
MaxExportLogs == 2
MaxConsole == 1
MaxCount == 2
MaxShots == 3
MaxErrors == 3
MaxPollTicks == 1

\* --------------------------------------------------------- program values
\* BasePage waits 1000 ms between attempts (waitForTimeout(1000)).
RetryPause == 1000
RecentLimit == 10
DefaultTimeout == 5000
PollInterval == 100

TestNames == {"a", "b"}
\* The value of an optional argument that was not given.
UNDEFINED == "<undefined>"
CallerTestNames == {"a", UNDEFINED}

Undefined == [type |-> "undefined"]
\* The error raised by step `s` of invocation `n` of the caller's action.
ActionError(s, n) == [type |-> "ActionError", step |-> s, n |-> n]
\* The value the caller's action resolves with on invocation `n`.
ActionValue(n) == [type |-> "value", n |-> n]
\* new Error(`${text} ${retries} attempts: ${error}`)
WrappedError(text, retries, error) ==
  [type |-> "Error", text |-> text, attempts |-> retries, cause |-> error]
\* new Error(`Value mismatch: expected "${value}", got "${actualValue}"`)
ValueMismatch(n) == [type |-> "ValueMismatch", step |-> "inputValue", n |-> n]

Min(a, b) == IF a <= b THEN a ELSE b

\* Math.pow on non-negative integers (Math.pow(x, 0) = 1, also for x = 0).
RECURSIVE Pow(_, _)
Pow(b, e) == IF e <= 0 THEN 1 ELSE b * Pow(b, e - 1)

\* ---------------------------------------------------------------- TestLogger
levels == <<"debug", "info", "warn", "error">>

\* Array.prototype.indexOf: the 0-based index of the first match, or -1.
indexOf(arr, x) ==
  IF \E i \in 1..Len(arr) : arr[i] = x
  THEN (CHOOSE i \in 1..Len(arr) :
          arr[i] = x /\ \A j \in 1..(i - 1) : arr[j] # x) - 1
  ELSE -1

\* Mutant: the comparison is strict.
shouldLog_strict(cur, level) == indexOf(levels, level) > indexOf(levels, cur)
shouldLog(cur, level) == indexOf(levels, level) >= indexOf(levels, cur)

\* Mutant: the store keeps only the newest entry.
log_evicting(store, level, message, testName) ==
  <<[level |-> level, message |-> message, testName |-> testName]>>
\* TestLogger.log: push the entry (the console echo is not part of the state).
log(store, level, message, testName) ==
  Append(store, [level |-> level, message |-> message, testName |-> testName])

debug(store, cur, message, testName) ==
  IF shouldLog(cur, "debug") THEN log(store, "debug", message, testName) ELSE store
\* Mutant: the new entry takes the place of the newest one (a lost update).
info_overwrite(store, cur, message, testName) ==
  IF ~shouldLog(cur, "info") THEN store
  ELSE IF store = <<>> THEN log(store, "info", message, testName)
  ELSE [store EXCEPT ![Len(store)] =
          [level |-> "info", message |-> message, testName |-> testName]]
info(store, cur, message, testName) ==
  IF shouldLog(cur, "info") THEN log(store, "info", message, testName) ELSE store
warn(store, cur, message, testName) ==
  IF shouldLog(cur, "warn") THEN log(store, "warn", message, testName) ELSE store
error(store, cur, message, testName) ==
  IF shouldLog(cur, "error") THEN log(store, "error", message, testName) ELSE store

\* A log message: its fixed text and the number interpolated into it.
Msg(text, n) == <<text, n>>

\* ------------------------------------------------------------------- state
VARIABLES
  logLevel,     \* TestLogger.logLevel
  logs,         \* TestLogger.logs
  helper,       \* the retry helper being called ("none" before the call)
  opts,         \* its options, defaults applied
  attempt,      \* the loop variable `attempt`
  pc,           \* "idle", "awaiting", "sleeping", "returned", "threw"
  step,         \* BasePage helpers: the awaited call of the try block
  lastError,    \* the local `lastError`
  sleepFor,     \* the delay of the pending timer
  outcome,      \* what the call returned or threw
  trace,        \* history: invocations started and settled, timers set and fired
  logBase,      \* history: Len(logs) when the helper was called
  lastCall,     \* history: the last TestLogger call and the store before it
  queryResult,  \* what the last TestLogger call returned, if it was a getLogsBy*
  files,        \* the file system: what each path holds
  console,      \* the lines written with console.error by the export paths
  testData,     \* TestDataManager.testData
  lastData,     \* history: the last TestDataManager call, the store before it, its result
  expected,     \* history: the store the calls made so far should have produced
  taskPc,       \* concurrent test tasks: where each task is suspended
  appends,      \* history: log() calls since the last clearLogs
  tdPc,         \* globalTeardown: the step it is about to run
  tdTrace,      \* history: the teardown steps run and the exports that failed
  validated,    \* the last validation call: function, arguments, outcome
  generated,    \* the last data generation call: function, arguments, result
  guarded,      \* the last call of an operation with a takeScreenshot option
  actualValue,  \* fillWithRetry: the value locator.inputValue() resolved with
  errorCount,   \* ErrorHandler.errorCount
  errorLog,     \* ErrorHandler.errorLog
  errorPc,      \* logError, per caller: "idle", or "screenshot" while it is awaited
  exportHistory,  \* history: 'Logs exported' entries: "none", "stored", "cleared"
  form          \* waitForFormReady: the call, the time since startTime, the outcome

vars == <<logLevel, logs, helper, opts, attempt, pc, step, lastError, sleepFor,
          outcome, trace, logBase, lastCall, queryResult, files, console,
          testData, lastData, expected, taskPc, appends, tdPc, tdTrace,
          validated, generated, guarded, actualValue, errorCount, errorLog,
          errorPc, exportHistory, form>>

runVars == <<helper, opts, attempt, pc, step, lastError, sleepFor, outcome,
             trace, logBase>>
loggerApiVars == <<lastCall, queryResult>>
fsVars == <<files, console>>
dataVars == <<testData, lastData, expected>>
taskVars == <<taskPc, appends>>
tdVars == <<tdPc, tdTrace>>
\* The state of the utilities modelled further below.
plainUtilVars ==
  <<generated, guarded, actualValue, errorCount, errorLog, errorPc, form>>
utilVars == <<plainUtilVars, exportHistory>>
extVars == <<fsVars, dataVars, taskVars, tdVars, validated, utilVars>>

NoOpts == [maxRetries |-> 0, baseDelay |-> 0, maxDelay |-> 0,
           backoffMultiplier |-> 0, testName |-> UNDEFINED, validate |-> FALSE]
NoOutcome == [status |-> "none", value |-> Undefined]
NoCall == [op |-> "none", arg |-> UNDEFINED, testName |-> UNDEFINED, before |-> <<>>]

Ev(e, n) == [ev |-> e, n |-> n]

\* The paths globalTeardown writes to.
SummaryLogsFile == "test-results/logs/test-execution-logs.json"
DataFile == "test-results/data/test-data-export.json"
LogsFile == "test-results/logs/test-logs.json"
ReportFile == "test-results/reports/performance-report.json"
FileNames == {SummaryLogsFile, DataFile, LogsFile, ReportFile}
\* A path that holds no file.
NoFile == [kind |-> "absent"]

\* new Map()
EmptyMap == [k \in {} |-> UNDEFINED]
\* No export / clear / import sequence is under way.
NoRoundTrip == [stage |-> "none"]
NoDataCall == [op |-> "none", key |-> UNDEFINED, data |-> UNDEFINED,
               before |-> EmptyMap, result |-> UNDEFINED, rt |-> NoRoundTrip]
NoValidation == [fn |-> "none"]
NoGeneration == [fn |-> "none"]
NoGuardedCall == [fn |-> "none"]
NoFormWait == [pc |-> "idle", page |-> "none", timeout |-> [given |-> FALSE, ms |-> 0],
               maxWait |-> 0, elapsed |-> 0, lastPoll |-> "none", sleep |-> 0,
               error |-> [type |-> "none"]]

Init ==
  /\ logLevel = "info"
  /\ logs = <<>>
  /\ helper = "none"
  /\ opts = NoOpts
  /\ attempt = 0
  /\ pc = "idle"
  /\ step = ""
  /\ lastError = Undefined
  /\ sleepFor = 0
  /\ outcome = NoOutcome
  /\ trace = <<>>
  /\ logBase = 0
  /\ lastCall = NoCall
  /\ queryResult = <<>>
  /\ files = [f \in FileNames |-> NoFile]
  /\ console = <<>>
  /\ testData = EmptyMap
  /\ lastData = NoDataCall
  /\ expected = EmptyMap
  /\ taskPc = [t \in TestNames |-> "idle"]
  /\ appends = 0
  /\ tdPc = "idle"
  /\ tdTrace = <<>>
  /\ validated = NoValidation
  /\ generated = NoGeneration
  /\ guarded = NoGuardedCall
  /\ actualValue = UNDEFINED
  /\ errorCount = 0
  /\ errorLog = <<>>
  /\ errorPc = [t \in TestNames |-> "idle"]
  /\ exportHistory = "none"
  /\ form = NoFormWait

Levels == {"debug", "info", "warn", "error"}

\* The options a caller can pass: every policy within the bounds, valid or not.
Policies ==
  [maxRetries : 0..MaxRetriesBound, baseDelay : 0..MaxBaseDelay,
   maxDelay : 0..MaxMaxDelay, backoffMultiplier : 0..MaxMultiplier,
   testName : CallerTestNames, validate : {FALSE}]

\* TestLogger.setLogLevel
setLogLevel(level) ==
  /\ pc = "idle"
  /\ logLevel' = level
  /\ lastCall' = [op |-> "setLogLevel", arg |-> level, testName |-> UNDEFINED,
                  before |-> logs]
  /\ queryResult' = <<>>
  /\ UNCHANGED <<logs, runVars, extVars>>

\* ------------------------------------------ TestUtils.performActionWithRetry
\* Mutant: the delay is not capped.
performDelay_noCap(o, a) == o.baseDelay * Pow(o.backoffMultiplier, a - 1)
\* Math.min(baseDelay * Math.pow(backoffMultiplier, attempt - 1), maxDelay)
performDelay(o, a) ==
  Min(o.baseDelay * Pow(o.backoffMultiplier, a - 1), o.maxDelay)

\* Mutant: the exhaustion is logged as a warning.
performExhausted_warns(store, o, err) ==
  /\ logs' = warn(store, logLevel, Msg("Action failed after attempts", o.maxRetries),
                  o.testName)
  /\ pc' = "threw"
  /\ outcome' = [status |-> "threw", value |-> err]

\* The code after the loop: log the exhaustion and throw lastError.
performExhausted(store, o, err) ==
  /\ logs' = error(store, logLevel, Msg("Action failed after attempts", o.maxRetries),
                   o.testName)
  /\ pc' = "threw"
  /\ outcome' = [status |-> "threw", value |-> err]

\* The call, up to the first await: the entry log, then the first invocation
\* of the action, or the exhaustion path when the loop body never runs.
performCall(o) ==
  /\ pc = "idle"
  /\ helper' = "performActionWithRetry"
  /\ opts' = o
  /\ logBase' = Len(logs)
  /\ attempt' = 1
  /\ LET entered == debug(logs, logLevel, Msg("Performing action with retry", o.maxRetries),
                          o.testName)
     IN IF 1 <= o.maxRetries
        THEN /\ logs' = entered
             /\ pc' = "awaiting"
             /\ trace' = Append(trace, Ev("invoke", 1))
             /\ UNCHANGED outcome
        ELSE /\ performExhausted(entered, o, lastError)
             /\ UNCHANGED trace
  /\ UNCHANGED <<logLevel, step, lastError, sleepFor, loggerApiVars, extVars>>

\* Mutant: the result of the action is awaited but not returned.
performResolves_dropsResult ==
  /\ pc = "awaiting" /\ helper = "performActionWithRetry"
  /\ trace' = Append(trace, Ev("resolved", attempt))
  /\ logs' = debug(logs, logLevel, Msg("Action succeeded", attempt), opts.testName)
  /\ pc' = "returned"
  /\ outcome' = [status |-> "returned", value |-> Undefined]
  /\ UNCHANGED <<logLevel, helper, opts, attempt, step, lastError, sleepFor,
                 logBase, loggerApiVars, extVars>>

\* `await action()` resolves: log the success and return the result.
performResolves ==
  /\ pc = "awaiting" /\ helper = "performActionWithRetry"
  /\ trace' = Append(trace, Ev("resolved", attempt))
  /\ logs' = debug(logs, logLevel, Msg("Action succeeded", attempt), opts.testName)
  /\ pc' = "returned"
  /\ outcome' = [status |-> "returned", value |-> ActionValue(attempt)]
  /\ UNCHANGED <<logLevel, helper, opts, attempt, step, lastError, sleepFor,
                 logBase, loggerApiVars, extVars>>

\* The catch block for error `err`, entered with the store `store` and the
\* history `tr`.
performCatch(store, tr, err) ==
  /\ lastError' = err
  /\ LET warned == warn(store, logLevel, Msg("Action attempt failed", attempt),
                        opts.testName)
     IN IF attempt < opts.maxRetries
        THEN /\ sleepFor' = performDelay(opts, attempt)
             /\ logs' = debug(warned, logLevel,
                              Msg("Retrying in ms", performDelay(opts, attempt)),
                              opts.testName)
             /\ pc' = "sleeping"
             /\ trace' = Append(tr, Ev("sleep", performDelay(opts, attempt)))
             /\ UNCHANGED <<attempt, outcome>>
        ELSE /\ attempt' = attempt + 1
             /\ performExhausted(warned, opts, err)
             /\ trace' = tr
             /\ UNCHANGED sleepFor

\* `await action()` rejects.
performRejects ==
  /\ pc = "awaiting" /\ helper = "performActionWithRetry"
  /\ performCatch(logs, Append(trace, Ev("rejected", attempt)),
                  ActionError("action", attempt))
  /\ UNCHANGED <<logLevel, helper, opts, step, logBase, loggerApiVars, extVars>>

\* The timer of the delay fires: next iteration of the loop.
performTimerFires ==
  /\ pc = "sleeping" /\ helper = "performActionWithRetry"
  /\ attempt' = attempt + 1
  /\ pc' = "awaiting"
  /\ trace' = Append(Append(trace, Ev("woke", sleepFor)), Ev("invoke", attempt + 1))
  /\ UNCHANGED <<logLevel, logs, helper, opts, step, lastError, sleepFor, outcome,
                 logBase, loggerApiVars, extVars>>

\* ------------------- performActionWithRetry when a logger call or the timer raises
\* The error a TestLogger call raises, and the error the timer raises.
LoggerError == [type |-> "LoggerError"]
TimerError == [type |-> "TimerError"]

\* TestLogger.log raising: before the push, or after it (in the console echo).
logRaises(store, level, message, testName, pushed) ==
  IF pushed THEN log(store, level, message, testName) ELSE store

\* The call when the entry log raises (outside the try block), or, with no
\* iteration to run, when the log of the exhaustion raises.
performCallLogRaises(o, pushed) ==
  /\ pc = "idle"
  /\ helper' = "performActionWithRetry"
  /\ opts' = o
  /\ logBase' = Len(logs)
  /\ \/ /\ shouldLog(logLevel, "debug")
        /\ logs' = logRaises(logs, "debug", Msg("Performing action with retry", o.maxRetries),
                             o.testName, pushed)
     \/ /\ ~(1 <= o.maxRetries)
        /\ logs' = logRaises(debug(logs, logLevel,
                                   Msg("Performing action with retry", o.maxRetries),
                                   o.testName),
                             "error", Msg("Action failed after attempts", o.maxRetries),
                             o.testName, pushed)
  /\ pc' = "threw"
  /\ outcome' = [status |-> "threw", value |-> LoggerError]
  /\ trace' = Append(trace, Ev("logRaised", 0))
  /\ UNCHANGED <<logLevel, attempt, step, lastError, sleepFor, loggerApiVars, extVars>>

\* `await action()` resolves and the log of the success raises: the call is
\* inside the try block, so the catch block runs with the logger's error.
performResolvesLogRaises(pushed) ==
  /\ pc = "awaiting" /\ helper = "performActionWithRetry"
  /\ shouldLog(logLevel, "debug")
  /\ performCatch(logRaises(logs, "debug", Msg("Action succeeded", attempt),
                            opts.testName, pushed),
                  trace \o <<Ev("resolved", attempt), Ev("logRaised", attempt)>>,
                  LoggerError)
  /\ UNCHANGED <<logLevel, helper, opts, step, logBase, loggerApiVars, extVars>>

\* `await action()` rejects and a logger call of the catch block, or the log
\* of the exhaustion after the loop, raises: nothing catches it.
performRejectsLogRaises(which, pushed) ==
  /\ pc = "awaiting" /\ helper = "performActionWithRetry"
  /\ lastError' = ActionError("action", attempt)
  /\ LET warned == warn(logs, logLevel, Msg("Action attempt failed", attempt),
                        opts.testName)
     IN CASE which = "warn" ->
               /\ shouldLog(logLevel, "warn")
               /\ logs' = logRaises(logs, "warn", Msg("Action attempt failed", attempt),
                                    opts.testName, pushed)
               /\ UNCHANGED attempt
          [] which = "retrying" ->
               /\ attempt < opts.maxRetries /\ shouldLog(logLevel, "debug")
               /\ logs' = logRaises(warned, "debug",
                                    Msg("Retrying in ms", performDelay(opts, attempt)),
                                    opts.testName, pushed)
               /\ UNCHANGED attempt
          [] which = "exhausted" ->
               /\ ~(attempt < opts.maxRetries)
               /\ logs' = logRaises(warned, "error",
                                    Msg("Action failed after attempts", opts.maxRetries),
                                    opts.testName, pushed)
               /\ attempt' = attempt + 1
  /\ pc' = "threw"
  /\ outcome' = [status |-> "threw", value |-> LoggerError]
  /\ trace' = trace \o <<Ev("rejected", attempt), Ev("logRaised", attempt)>>
  /\ UNCHANGED <<logLevel, helper, opts, step, sleepFor, logBase, loggerApiVars, extVars>>

\* The promise of the delay rejects: nothing catches it.
performTimerRaises ==
  /\ pc = "sleeping" /\ helper = "performActionWithRetry"
  /\ pc' = "threw"
  /\ outcome' = [status |-> "threw", value |-> TimerError]
  /\ trace' = Append(trace, Ev("timerRaised", attempt))
  /\ UNCHANGED <<logLevel, logs, helper, opts, attempt, step, lastError, sleepFor,
                 logBase, loggerApiVars, extVars>>

\* ------------------------------------------------ TestHelpers.retryOperation
\* Mutant: the exponent is the attempt number.
helpersDelay_nextExponent(o, a) ==
  Min(o.baseDelay * Pow(o.backoffMultiplier, a), o.maxDelay)
\* Math.min(baseDelay * Math.pow(backoffMultiplier, attempt - 1), maxDelay)
helpersDelay(o, a) ==
  Min(o.baseDelay * Pow(o.backoffMultiplier, a - 1), o.maxDelay)

\* The call, up to the first await; `throw lastError!` when the loop body
\* never runs.  This helper writes to the console only, never to TestLogger.
helpersRetryCall(o) ==
  /\ pc = "idle"
  /\ helper' = "TestHelpers.retryOperation"
  /\ opts' = o
  /\ logBase' = Len(logs)
  /\ attempt' = 1
  /\ IF 1 <= o.maxRetries
     THEN /\ pc' = "awaiting"
          /\ trace' = Append(trace, Ev("invoke", 1))
          /\ UNCHANGED outcome
     ELSE /\ pc' = "threw"
          /\ outcome' = [status |-> "threw", value |-> lastError]
          /\ UNCHANGED trace
  /\ UNCHANGED <<logLevel, logs, step, lastError, sleepFor, loggerApiVars, extVars>>

\* `return await operation()` resolves.
helpersRetryResolves ==
  /\ pc = "awaiting" /\ helper = "TestHelpers.retryOperation"
  /\ trace' = Append(trace, Ev("resolved", attempt))
  /\ pc' = "returned"
  /\ outcome' = [status |-> "returned", value |-> ActionValue(attempt)]
  /\ UNCHANGED <<logLevel, logs, helper, opts, attempt, step, lastError, sleepFor,
                 logBase, loggerApiVars, extVars>>

\* `await operation()` rejects: the catch block, then the delay or the throw
\* after the loop.
helpersRetryRejects ==
  /\ pc = "awaiting" /\ helper = "TestHelpers.retryOperation"
  /\ lastError' = ActionError("action", attempt)
  /\ IF attempt < opts.maxRetries
     THEN /\ sleepFor' = helpersDelay(opts, attempt)
          /\ pc' = "sleeping"
          /\ trace' = Append(Append(trace, Ev("rejected", attempt)),
                             Ev("sleep", helpersDelay(opts, attempt)))
          /\ UNCHANGED <<attempt, outcome>>
     ELSE /\ attempt' = attempt + 1
          /\ pc' = "threw"
          /\ outcome' = [status |-> "threw", value |-> ActionError("action", attempt)]
          /\ trace' = Append(trace, Ev("rejected", attempt))
          /\ UNCHANGED sleepFor
  /\ UNCHANGED <<logLevel, logs, helper, opts, step, logBase, loggerApiVars, extVars>>

\* The timer of the delay fires: next iteration of the loop.
helpersRetryTimerFires ==
  /\ pc = "sleeping" /\ helper = "TestHelpers.retryOperation"
  /\ attempt' = attempt + 1
  /\ pc' = "awaiting"
  /\ trace' = Append(Append(trace, Ev("woke", sleepFor)), Ev("invoke", attempt + 1))
  /\ UNCHANGED <<logLevel, logs, helper, opts, step, lastError, sleepFor, outcome,
                 logBase, loggerApiVars, extVars>>

\* -------------------------------------------------- TestUtils.retryOperation
\* retryOperation(operation, maxRetries, baseDelay): of the caller's policy
\* it takes maxRetries and baseDelay only; the multiplier is the literal 2 and
\* there is no maximum delay.
\* baseDelay * Math.pow(2, attempt - 1)
utilsDelay(o, a) == o.baseDelay * Pow(2, a - 1)

utilsRetryCall(o) ==
  /\ pc = "idle"
  /\ helper' = "TestUtils.retryOperation"
  /\ opts' = o
  /\ logBase' = Len(logs)
  /\ attempt' = 1
  /\ IF 1 <= o.maxRetries
     THEN /\ pc' = "awaiting"
          /\ trace' = Append(trace, Ev("invoke", 1))
          /\ UNCHANGED outcome
     ELSE /\ pc' = "threw"
          /\ outcome' = [status |-> "threw", value |-> lastError]
          /\ UNCHANGED trace
  /\ UNCHANGED <<logLevel, logs, step, lastError, sleepFor, loggerApiVars, extVars>>

utilsRetryResolves ==
  /\ pc = "awaiting" /\ helper = "TestUtils.retryOperation"
  /\ trace' = Append(trace, Ev("resolved", attempt))
  /\ pc' = "returned"
  /\ outcome' = [status |-> "returned", value |-> ActionValue(attempt)]
  /\ UNCHANGED <<logLevel, logs, helper, opts, attempt, step, lastError, sleepFor,
                 logBase, loggerApiVars, extVars>>

\* Mutant: the catch block rethrows at once instead of retrying.
utilsRetryRejects_noRetry ==
  /\ pc = "awaiting" /\ helper = "TestUtils.retryOperation"
  /\ lastError' = ActionError("action", attempt)
  /\ attempt' = attempt + 1
  /\ pc' = "threw"
  /\ outcome' = [status |-> "threw", value |-> ActionError("action", attempt)]
  /\ trace' = Append(trace, Ev("rejected", attempt))
  /\ UNCHANGED <<logLevel, logs, helper, opts, step, sleepFor, logBase, loggerApiVars, extVars>>

utilsRetryRejects ==
  /\ pc = "awaiting" /\ helper = "TestUtils.retryOperation"
  /\ lastError' = ActionError("action", attempt)
  /\ IF attempt < opts.maxRetries
     THEN /\ sleepFor' = utilsDelay(opts, attempt)
          /\ pc' = "sleeping"
          /\ trace' = Append(Append(trace, Ev("rejected", attempt)),
                             Ev("sleep", utilsDelay(opts, attempt)))
          /\ UNCHANGED <<attempt, outcome>>
     ELSE /\ attempt' = attempt + 1
          /\ pc' = "threw"
          /\ outcome' = [status |-> "threw", value |-> ActionError("action", attempt)]
          /\ trace' = Append(trace, Ev("rejected", attempt))
          /\ UNCHANGED sleepFor
  /\ UNCHANGED <<logLevel, logs, helper, opts, step, logBase, loggerApiVars, extVars>>

utilsRetryTimerFires ==
  /\ pc = "sleeping" /\ helper = "TestUtils.retryOperation"
  /\ attempt' = attempt + 1
  /\ pc' = "awaiting"
  /\ trace' = Append(Append(trace, Ev("woke", sleepFor)), Ev("invoke", attempt + 1))
  /\ UNCHANGED <<logLevel, logs, helper, opts, step, lastError, sleepFor, outcome,
                 logBase, loggerApiVars, extVars>>

\* ----------------------------------------------------------------- BasePage
\* The options of the three BasePage helpers (timeout, force and state are
\* handed to the browser and do not steer the loop).
PageOptions == [retries : 0..MaxRetriesBound, validate : BOOLEAN]

\* The catch block of the three helpers: throw the wrapped error after the
\* last attempt, else pause for 1000 ms.
\* Mutant: the first failure is thrown to the caller as it is.
pageCatch_rethrowRaw(text, err) ==
  /\ lastError' = err
  /\ trace' = Append(trace, Ev("rejected", attempt))
  /\ pc' = "threw"
  /\ outcome' = [status |-> "threw", value |-> err]
  /\ UNCHANGED sleepFor
pageCatch(text, err) ==
  /\ lastError' = err
  /\ IF attempt = opts.retries
     THEN /\ pc' = "threw"
          /\ outcome' = [status |-> "threw",
                         value |-> WrappedError(text, opts.retries, err)]
          /\ trace' = Append(trace, Ev("rejected", attempt))
          /\ UNCHANGED sleepFor
     ELSE /\ pc' = "sleeping"
          /\ sleepFor' = RetryPause
          /\ trace' = Append(Append(trace, Ev("rejected", attempt)),
                             Ev("sleep", RetryPause))
          /\ UNCHANGED outcome

\* The call of a helper, up to its first await; with no iteration to run the
\* function body ends and the helper returns.
pageCall(name, o) ==
  /\ pc = "idle"
  /\ helper' = name
  /\ opts' = o
  /\ logBase' = Len(logs)
  /\ attempt' = 1
  /\ IF 1 <= o.retries
     THEN /\ pc' = "awaiting"
          /\ step' = "waitFor"
          /\ trace' = Append(trace, Ev("invoke", 1))
          /\ UNCHANGED outcome
     ELSE /\ pc' = "returned"
          /\ outcome' = [status |-> "returned", value |-> Undefined]
          /\ UNCHANGED <<step, trace>>
  /\ UNCHANGED <<logLevel, logs, lastError, sleepFor, loggerApiVars, extVars>>

\* `return` inside the try block.
pageReturn ==
  /\ trace' = Append(trace, Ev("resolved", attempt))
  /\ pc' = "returned"
  /\ outcome' = [status |-> "returned", value |-> Undefined]
  /\ UNCHANGED <<step, lastError, sleepFor>>

\* waitForTimeout(1000) resolves: next iteration of the loop.
pageTimerFires(name) ==
  /\ pc = "sleeping" /\ helper = name
  /\ attempt' = attempt + 1
  /\ IF attempt + 1 <= opts.retries
     THEN /\ pc' = "awaiting"
          /\ step' = "waitFor"
          /\ trace' = Append(Append(trace, Ev("woke", sleepFor)),
                             Ev("invoke", attempt + 1))
          /\ UNCHANGED outcome
     ELSE /\ pc' = "returned"
          /\ outcome' = [status |-> "returned", value |-> Undefined]
          /\ trace' = Append(trace, Ev("woke", sleepFor))
          /\ UNCHANGED step
  /\ UNCHANGED <<logLevel, logs, helper, opts, lastError, sleepFor, logBase,
                 loggerApiVars, extVars>>

\* BasePage.clickWithRetry
clickCall(o) == pageCall("clickWithRetry", [retries |-> o.retries])

\* locator.waitFor resolves, then locator.click resolves.
clickStepResolves ==
  /\ pc = "awaiting" /\ helper = "clickWithRetry"
  /\ IF step = "waitFor"
     THEN /\ step' = "click"
          /\ UNCHANGED <<pc, outcome, trace, lastError, sleepFor>>
     ELSE pageReturn
  /\ UNCHANGED <<logLevel, logs, helper, opts, attempt, logBase, loggerApiVars, extVars>>

\* Mutant: the pause is not awaited; the next attempt starts at once.
clickStepRejects_noAwait ==
  /\ pc = "awaiting" /\ helper = "clickWithRetry"
  /\ lastError' = ActionError(step, attempt)
  /\ IF attempt = opts.retries
     THEN /\ pc' = "threw"
          /\ outcome' = [status |-> "threw",
                         value |-> WrappedError("Failed to click element after",
                                                opts.retries, ActionError(step, attempt))]
          /\ trace' = Append(trace, Ev("rejected", attempt))
          /\ UNCHANGED <<attempt, step>>
     ELSE /\ attempt' = attempt + 1
          /\ step' = "waitFor"
          /\ trace' = trace \o <<Ev("rejected", attempt), Ev("sleep", RetryPause),
                                  Ev("invoke", attempt + 1)>>
          /\ UNCHANGED <<pc, outcome>>
  /\ UNCHANGED <<logLevel, logs, helper, opts, sleepFor, logBase, loggerApiVars, extVars>>

clickStepRejects ==
  /\ pc = "awaiting" /\ helper = "clickWithRetry"
  /\ pageCatch("Failed to click element after", ActionError(step, attempt))
  /\ UNCHANGED <<logLevel, logs, helper, opts, attempt, step, logBase,
                 loggerApiVars, extVars>>

clickTimerFires == pageTimerFires("clickWithRetry")

\* BasePage.fillWithRetry
fillCall(o) == pageCall("fillWithRetry", o)

\* The value handed to fillWithRetry, and another one the field may hold.
FillValue == "'value'"
OtherValue == "'other'"

\* Mutant: the value read back is not compared.
mismatch_never(actual, value) == FALSE
\* actualValue !== value
mismatch(actual, value) == actual # value

\* waitFor, clear, fill resolve in turn; inputValue resolves with the value
\* read back, which equals the requested value (`same`) or not.
fillStepResolves(same) ==
  /\ pc = "awaiting" /\ helper = "fillWithRetry"
  /\ actualValue' = IF step = "inputValue"
                    THEN IF same THEN FillValue ELSE OtherValue
                    ELSE actualValue
  /\ CASE step = "waitFor" ->
            /\ step' = "clear"
            /\ UNCHANGED <<pc, outcome, trace, lastError, sleepFor>>
       [] step = "clear" ->
            /\ step' = "fill"
            /\ UNCHANGED <<pc, outcome, trace, lastError, sleepFor>>
       [] step = "fill" ->
            IF opts.validate
            THEN /\ step' = "inputValue"
                 /\ UNCHANGED <<pc, outcome, trace, lastError, sleepFor>>
            ELSE pageReturn
       [] step = "inputValue" ->
            IF mismatch(actualValue', FillValue)
            THEN /\ pageCatch("Failed to fill element after", ValueMismatch(attempt))
                 /\ UNCHANGED step
            ELSE pageReturn
  /\ UNCHANGED <<logLevel, logs, helper, opts, attempt, logBase, loggerApiVars,
                 fsVars, dataVars, taskVars, tdVars, validated, generated, guarded,
                 errorCount,
                 errorLog,
                 errorPc,
                 exportHistory,
                 form>>

fillStepRejects ==
  /\ pc = "awaiting" /\ helper = "fillWithRetry"
  /\ pageCatch("Failed to fill element after", ActionError(step, attempt))
  /\ UNCHANGED <<logLevel, logs, helper, opts, attempt, step, logBase,
                 loggerApiVars, extVars>>

fillTimerFires == pageTimerFires("fillWithRetry")

\* BasePage.waitForElementEnhanced
waitForElementCall(o) == pageCall("waitForElementEnhanced", [retries |-> o.retries])

waitForElementResolves ==
  /\ pc = "awaiting" /\ helper = "waitForElementEnhanced"
  /\ pageReturn
  /\ UNCHANGED <<logLevel, logs, helper, opts, attempt, logBase, loggerApiVars, extVars>>

waitForElementRejects ==
  /\ pc = "awaiting" /\ helper = "waitForElementEnhanced"
  /\ pageCatch("Element not found in state after", ActionError(step, attempt))
  /\ UNCHANGED <<logLevel, logs, helper, opts, attempt, step, logBase,
                 loggerApiVars, extVars>>

waitForElementTimerFires == pageTimerFires("waitForElementEnhanced")

\* ------------------------------------------------- TestLogger, called directly
\* Array.prototype.filter with the test `element[field] === value`: the
\* elements that pass, visited in index order and pushed onto the result.
RECURSIVE filterFrom(_, _, _, _, _)
filterFrom(arr, field, value, i, acc) ==
  IF i > Len(arr) THEN acc
  ELSE filterFrom(arr, field, value, i + 1,
                  IF arr[i][field] = value THEN Append(acc, arr[i]) ELSE acc)
filter(arr, field, value) == filterFrom(arr, field, value, 1, <<>>)

\* The arguments of a direct call: the message names the position the entry
\* would take, so that two entries of one store are never equal.
DirectMsg == Msg("message", Len(logs) + 1)
DirectTestNames == TestNames

Called(op, arg, testName) ==
  lastCall' = [op |-> op, arg |-> arg, testName |-> testName, before |-> logs]

\* TestLogger.debug / info / warn / error
callDebug(testName) ==
  /\ pc = "idle" /\ Len(logs) < MaxLogs
  /\ logs' = debug(logs, logLevel, DirectMsg, testName)
  /\ Called("debug", DirectMsg, testName)
  /\ queryResult' = <<>>
  /\ UNCHANGED <<logLevel, runVars, extVars>>
callInfo(testName) ==
  /\ pc = "idle" /\ Len(logs) < MaxLogs
  /\ logs' = info(logs, logLevel, DirectMsg, testName)
  /\ Called("info", DirectMsg, testName)
  /\ queryResult' = <<>>
  /\ UNCHANGED <<logLevel, runVars, extVars>>
callWarn(testName) ==
  /\ pc = "idle" /\ Len(logs) < MaxLogs
  /\ logs' = warn(logs, logLevel, DirectMsg, testName)
  /\ Called("warn", DirectMsg, testName)
  /\ queryResult' = <<>>
  /\ UNCHANGED <<logLevel, runVars, extVars>>
callError(testName) ==
  /\ pc = "idle" /\ Len(logs) < MaxLogs
  /\ logs' = error(logs, logLevel, DirectMsg, testName)
  /\ Called("error", DirectMsg, testName)
  /\ queryResult' = <<>>
  /\ UNCHANGED <<logLevel, runVars, extVars>>

\* this.logs.filter((log) => log.level === level)
getLogsByLevel(store, level) == filter(store, "level", level)

\* Mutant: find instead of filter.
getLogsByTest_firstOnly(store, testName) ==
  LET all == filter(store, "testName", testName)
  IN IF all = <<>> THEN all ELSE <<all[1]>>
\* this.logs.filter((log) => log.testName === testName)
getLogsByTest(store, testName) == filter(store, "testName", testName)

callGetLogsByLevel(level) ==
  /\ pc = "idle"
  /\ queryResult' = getLogsByLevel(logs, level)
  /\ Called("getLogsByLevel", level, UNDEFINED)
  /\ UNCHANGED <<logLevel, logs, runVars, extVars>>
callGetLogsByTest(testName) ==
  /\ pc = "idle"
  /\ queryResult' = getLogsByTest(logs, testName)
  /\ Called("getLogsByTest", testName, UNDEFINED)
  /\ UNCHANGED <<logLevel, logs, runVars, extVars>>

\* TestLogger.getLogs: a copy of the array.
getLogs(store) == [i \in 1..Len(store) |-> store[i]]

callGetLogs ==
  /\ pc = "idle"
  /\ queryResult' = getLogs(logs)
  /\ Called("getLogs", UNDEFINED, UNDEFINED)
  /\ UNCHANGED <<logLevel, logs, runVars, extVars>>

\* JavaScript truthiness of an optional string.
truthy(x) == x # UNDEFINED /\ x # ""

\* TestLogger.getLogSummaryByLevel
getLogSummaryByLevel(store) ==
  [l \in {store[i].level : i \in 1..Len(store)} |->
     Cardinality({i \in 1..Len(store) : store[i].level = l})]

\* Mutant: every entry is counted under every test name.
getLogSummaryByTest_countsAll(store) ==
  [t \in {store[i].testName : i \in {j \in 1..Len(store) : truthy(store[j].testName)}} |->
     Len(store)]
\* TestLogger.getLogSummaryByTest
getLogSummaryByTest(store) ==
  [t \in {store[i].testName : i \in {j \in 1..Len(store) : truthy(store[j].testName)}} |->
     Cardinality({i \in 1..Len(store) : store[i].testName = t})]

\* JSON.stringify of a log entry: a property whose value is undefined is left out.
stringifyEntry(e) ==
  IF e.testName = UNDEFINED THEN [level |-> e.level, message |-> e.message] ELSE e

\* The object exportLogs writes, as JSON.stringify renders it (the timestamps
\* of the file and of the entries are left out).
logData(store) ==
  [kind |-> "logs",
   logs |-> [i \in 1..Len(store) |-> stringifyEntry(store[i])],
   summary |-> [total |-> Len(store),
                byLevel |-> getLogSummaryByLevel(store),
                byTest |-> getLogSummaryByTest(store)]]

ExportedMsg(filename) == <<"Logs exported to", 0, filename>>
ExportFailedMsg == Msg("Failed to export logs", 0)

\* Mutant: the entry about the export is logged before the file is written.
exportLogsFiles_afterEntry(fs, store, filename, writable) ==
  IF writable
  THEN [fs EXCEPT ![filename] =
          logData(log(store, "info", ExportedMsg(filename), UNDEFINED))]
  ELSE fs
\* TestLogger.exportLogs, the file system after it: mkdirSync and writeFileSync
\* succeed (writable) or one of them throws.
exportLogsFiles(fs, store, filename, writable) ==
  IF writable THEN [fs EXCEPT ![filename] = logData(store)] ELSE fs
\* TestLogger.exportLogs, the store after it.
exportLogsStore(store, cur, filename, writable) ==
  IF writable THEN info(store, cur, ExportedMsg(filename), UNDEFINED)
  ELSE error(store, cur, ExportFailedMsg, UNDEFINED)

\* The history of the 'Logs exported' entries: one was stored by an export.
exported(h, cur, writable) ==
  IF writable /\ shouldLog(cur, "info") THEN "stored" ELSE h
\* The store was cleared: the entries stored so far are gone.
cleared(h) == IF h = "none" THEN "none" ELSE "cleared"

LogFileNames == {LogsFile}

exportLogs(filename, writable) ==
  /\ pc = "idle" /\ Len(logs) < MaxLogs
  /\ files' = exportLogsFiles(files, logs, filename, writable)
  /\ logs' = exportLogsStore(logs, logLevel, filename, writable)
  \* the catch block ends normally: the returned promise resolves either way
  /\ lastCall' = [op |-> "exportLogs", arg |-> filename, testName |-> UNDEFINED,
                  before |-> logs, writable |-> writable, settled |-> "resolved",
                  history |-> exportHistory]
  /\ queryResult' = <<>>
  /\ exportHistory' = exported(exportHistory, logLevel, writable)
  /\ UNCHANGED <<logLevel, runVars, console, dataVars, taskVars, tdVars, validated,
                 plainUtilVars>>

\* TestLogger.clearLogs
clearLogs ==
  /\ pc = "idle"
  /\ logs' = <<>>
  /\ Called("clearLogs", UNDEFINED, UNDEFINED)
  /\ queryResult' = <<>>
  /\ exportHistory' = cleared(exportHistory)
  /\ UNCHANGED <<logLevel, runVars, fsVars, dataVars, taskVars, tdVars, validated,
                 plainUtilVars>>

\* Another test logs a warning before the helper is called.
priorWarn ==
  /\ Len(logs) < MaxPriorLogs
  /\ callWarn("b")

\* ------------------------------------------------------- TestDataManager
\* The keys tests store under; the empty string is a string like any other.
Keys == {"", "user"}
\* The values tests store, written as the JavaScript expressions that make them.
JSValues == {"undefined", "null", "NaN", "1", "'x'", "new Date(0)"}

\* History: how far the sequence exportData(f), clearData(), importData(f)
\* has come with this call, and the store exportData(f) was called on.
RoundTrip(op, key) ==
  IF op = "exportData"
  THEN [stage |-> "exported", file |-> key, store |-> testData]
  ELSE IF op = "clearData" /\ key = UNDEFINED /\ lastData.rt.stage = "exported"
  THEN [lastData.rt EXCEPT !.stage = "cleared"]
  ELSE IF op = "importData" /\ lastData.rt.stage = "cleared" /\ lastData.rt.file = key
  THEN [lastData.rt EXCEPT !.stage = "imported"]
  ELSE NoRoundTrip

DataCalled(op, key, data, result) ==
  lastData' = [op |-> op, key |-> key, data |-> data, before |-> testData,
               result |-> result, rt |-> RoundTrip(op, key)]

\* Map.prototype.set
mapSet(m, key, data) ==
  [k \in DOMAIN m \cup {key} |-> IF k = key THEN data ELSE m[k]]
\* Map.prototype.delete
mapDelete(m, key) == [k \in DOMAIN m \ {key} |-> m[k]]

\* TestDataManager.storeData
storeData(m, key, data) == mapSet(m, key, data)

\* TestDataManager.getData
getData(m, key) == IF key \in DOMAIN m THEN m[key] ELSE "undefined"

\* TestDataManager.clearData; key is UNDEFINED when the argument is left out.
clearData(m, key) == IF truthy(key) THEN mapDelete(m, key) ELSE EmptyMap

\* What a store should hold after clearData according to its contract: a key
\* argument removes that key, no argument empties the store.
clearExpected(m, key) == IF key # UNDEFINED THEN mapDelete(m, key) ELSE EmptyMap

callStoreData(key, data) ==
  /\ testData' = storeData(testData, key, data)
  /\ expected' = mapSet(expected, key, data)
  /\ DataCalled("storeData", key, data, UNDEFINED)
  /\ UNCHANGED <<logLevel, logs, runVars, loggerApiVars, fsVars, taskVars, tdVars,
                 validated, utilVars>>

callGetData(key) ==
  /\ DataCalled("getData", key, UNDEFINED, getData(testData, key))
  /\ UNCHANGED <<logLevel, logs, runVars, loggerApiVars, fsVars, testData, expected,
                 taskVars, tdVars, validated, utilVars>>

callClearData(key) ==
  /\ testData' = clearData(testData, key)
  /\ expected' = clearExpected(expected, key)
  /\ DataCalled("clearData", key, UNDEFINED, UNDEFINED)
  /\ UNCHANGED <<logLevel, logs, runVars, loggerApiVars, fsVars, taskVars, tdVars,
                 validated, utilVars>>

\* TestUtils.clearStoredTestData
clearStoredTestData(key, testName) ==
  /\ Len(logs) < MaxLogs
  /\ testData' = clearData(testData, key)
  /\ expected' = clearExpected(expected, key)
  /\ DataCalled("clearStoredTestData", key, UNDEFINED, UNDEFINED)
  /\ logs' = info(logs, logLevel, Msg("Cleared stored test data", 0), testName)
  /\ UNCHANGED <<logLevel, runVars, loggerApiVars, fsVars, taskVars, tdVars,
                 validated, utilVars>>

\* typeof
typeOf(v) ==
  CASE v = "undefined" -> "undefined"
    [] v \in {"1", "NaN"} -> "number"
    [] v \in {"'x'", "'a@b.c'", "'1970-01-01T00:00:00.000Z'"} -> "string"
    [] OTHER -> "object"

\* JSON.stringify of a property value: the JSON text, or Omitted when the
\* property is left out. NaN becomes null, a Date its ISO string (toJSON).
Omitted == "<omitted>"
jsonOf(v) ==
  CASE v = "undefined" -> Omitted
    [] v \in {"null", "NaN"} -> "null"
    [] v = "1" -> "1"
    [] v = "'x'" -> "\"x\""
    [] v \in {"new Date(0)", "'1970-01-01T00:00:00.000Z'"} ->
         "\"1970-01-01T00:00:00.000Z\""

\* JSON.parse of a JSON value.
parseOf(j) ==
  CASE j = "null" -> "null"
    [] j = "1" -> "1"
    [] j = "\"x\"" -> "'x'"
    [] j = "\"1970-01-01T00:00:00.000Z\"" -> "'1970-01-01T00:00:00.000Z'"

\* JSON.stringify(Object.fromEntries(this.testData))
stringifyData(m) ==
  [k \in {j \in DOMAIN m : jsonOf(m[j]) # Omitted} |-> jsonOf(m[k])]
\* Object.entries(JSON.parse(text).data)
parseData(d) == [k \in DOMAIN d |-> parseOf(d[k])]

\* JSON.stringify(this.testData), as its characters: a Map has no enumerable
\* own properties, so its entries are not serialized and the text is "{}".
stringifyStore(m) == <<"{", "}">>

\* TestDataManager.getDataSummary
getDataSummary(m) ==
  [totalEntries |-> Cardinality(DOMAIN m),
   entriesByType |-> [ty \in {typeOf(m[k]) : k \in DOMAIN m} |->
                        Cardinality({k \in DOMAIN m : typeOf(m[k]) = ty})],
   memoryUsage |-> Len(stringifyStore(m))]

callGetDataSummary ==
  /\ DataCalled("getDataSummary", UNDEFINED, UNDEFINED, getDataSummary(testData))
  /\ UNCHANGED <<logLevel, logs, runVars, loggerApiVars, fsVars, testData, expected,
                 taskVars, tdVars, validated, utilVars>>

\* The object exportData writes, as JSON.stringify renders it.
exportedData(m) ==
  [kind |-> "data", data |-> stringifyData(m), summary |-> getDataSummary(m)]

\* TestDataManager.exportData, the file system after it.
exportDataFiles(fs, m, filename, writable) ==
  IF writable THEN [fs EXCEPT ![filename] = exportedData(m)] ELSE fs

\* What a file can hold besides an export: text that is not JSON, the JSON
\* text null, a JSON object without a data field (an export of the logs).
Garbage == [kind |-> "garbage"]
JsonNull == [kind |-> "null"]
ForeignContents == {Garbage, JsonNull, logData(<<>>)}

\* readFileSync or JSON.parse throws, or `data.data` is read off null.
importThrows(c) == c.kind \in {"absent", "garbage", "null"}

\* Mutant: the entries of the file are added to the store.
importData_merge(m, c) ==
  IF c.kind = "data"
  THEN [k \in DOMAIN m \cup DOMAIN c.data |->
          IF k \in DOMAIN c.data THEN parseOf(c.data[k]) ELSE m[k]]
  ELSE m
\* TestDataManager.importData, the store after it reads content c.
importData(m, c) == IF c.kind = "data" THEN parseData(c.data) ELSE m

ExportDataFailed == "Failed to export test data:"
ImportDataFailed == "Failed to import test data:"

callExportData(filename, writable) ==
  /\ writable \/ Len(console) < MaxConsole
  /\ files' = exportDataFiles(files, testData, filename, writable)
  /\ console' = IF writable THEN console ELSE Append(console, ExportDataFailed)
  \* the catch block ends normally: the returned promise resolves either way
  /\ DataCalled("exportData", filename, UNDEFINED,
                [writable |-> writable, settled |-> "resolved"])
  /\ UNCHANGED <<logLevel, logs, runVars, loggerApiVars, testData, expected, taskVars,
                 tdVars, validated, utilVars>>

\* How the promise of TestDataManager.exportData settles: its catch block
\* logs to the console and ends normally, whether the file was written or not.
exportDataSettles(writable) == "resolved"

ExportedDataMsg == Msg("Exported test data to file", 0)
ExportTestDataFailedMsg == Msg("Failed to export test data", 0)

\* TestUtils.exportTestData: exportData, then the info entry; the error entry
\* and the rethrow if the awaited promise is rejected.
exportTestData(filename, writable, testName) ==
  /\ Len(logs) < MaxLogs
  /\ writable \/ Len(console) < MaxConsole
  /\ files' = exportDataFiles(files, testData, filename, writable)
  /\ console' = IF writable THEN console ELSE Append(console, ExportDataFailed)
  /\ logs' = IF exportDataSettles(writable) = "resolved"
             THEN info(logs, logLevel, ExportedDataMsg, testName)
             ELSE error(logs, logLevel, ExportTestDataFailedMsg, testName)
  /\ DataCalled("exportTestData", filename, UNDEFINED,
                [writable |-> writable, settled |-> exportDataSettles(writable),
                 level |-> logLevel, logsBefore |-> logs, logsAfter |-> logs',
                 file |-> files'[filename]])
  /\ UNCHANGED <<logLevel, runVars, loggerApiVars, testData, expected, taskVars,
                 tdVars, validated, utilVars>>

callImportData(filename) ==
  /\ ~importThrows(files[filename]) \/ Len(console) < MaxConsole
  /\ testData' = importData(testData, files[filename])
  /\ expected' = testData'
  /\ console' = IF importThrows(files[filename])
                THEN Append(console, ImportDataFailed) ELSE console
  /\ DataCalled("importData", filename, UNDEFINED, UNDEFINED)
  /\ UNCHANGED <<logLevel, logs, runVars, loggerApiVars, files, taskVars, tdVars,
                 validated, utilVars>>

\* Something else writes the file.
externalWrite(filename, c) ==
  /\ files[filename] # c
  /\ files' = [files EXCEPT ![filename] = c]
  /\ lastData' = [lastData EXCEPT !.op = "none", !.rt = NoRoundTrip]
  /\ UNCHANGED <<logLevel, logs, runVars, loggerApiVars, console, testData, expected,
                 taskVars, tdVars, validated, utilVars>>

\* The values of the export / import scenarios.
FileValues == {"undefined", "NaN", "1", "new Date(0)"}

NextFile ==
  \/ \E k \in Keys, v \in FileValues : callStoreData(k, v)
  \/ \E k \in Keys : callGetData(k)
  \/ callClearData(UNDEFINED)
  \/ \E writable \in BOOLEAN : callExportData(DataFile, writable)
  \/ callImportData(DataFile)
  \/ \E c \in ForeignContents : externalWrite(DataFile, c)

NextExportData ==
  \/ \E l \in Levels : setLogLevel(l)
  \/ \E v \in FileValues : callStoreData("user", v)
  \/ callClearData(UNDEFINED)
  \/ /\ Len(logs) < MaxLogs
     /\ \E writable \in BOOLEAN, t \in CallerTestNames :
          exportTestData(DataFile, writable, t)
  \/ clearLogs

\* TestUtils.exportTestData called by tests that store and clear data.
SpecExportData == Init /\ [][NextExportData]_vars

\* The TestDataManager store with its export to and import from a file.
SpecFile == Init /\ [][NextFile]_vars

\* -------------------------------------------------------- globalTeardown
\* An info call of the teardown (no test name).
tdInfo(store, cur, text) == info(store, cur, Msg(text, 0), UNDEFINED)

TdStep(name, failed) == [step |-> name, failed |-> failed]

\* generateRecommendations
generateRecommendations(store) ==
  LET errorLogCount == Len(filter(store, "level", "error"))
      warningCount == Len(filter(store, "level", "warn"))
  IN (IF errorLogCount > 10 THEN <<"review test stability">> ELSE <<>>)
     \o (IF warningCount > 20 THEN <<"optimize test data and assertions">> ELSE <<>>)
     \o (IF Len(store) > 1000 THEN <<"reduce log verbosity">> ELSE <<>>)

\* The object generatePerformanceReport writes.
performanceReport(m, store) ==
  [kind |-> "report",
   testData |-> getDataSummary(m),
   logs |-> [total |-> Len(getLogs(store)),
             errors |-> Len(filter(store, "level", "error")),
             warnings |-> Len(filter(store, "level", "warn"))],
   recommendations |-> generateRecommendations(store)]

\* globalTeardown up to the await in generateTestSummary: the opening logs,
\* the summary log and exportLogs on the summary file.
teardownStart(writable) ==
  /\ tdPc = "idle"
  /\ LET l1 == tdInfo(logs, logLevel, "Starting enhanced global test teardown")
         l2 == tdInfo(l1, logLevel, "Generating test summary")
         l3 == tdInfo(l2, logLevel, "Test execution summary")
     IN /\ files' = exportLogsFiles(files, l3, SummaryLogsFile, writable)
        /\ logs' = exportLogsStore(l3, logLevel, SummaryLogsFile, writable)
  /\ tdPc' = "exportData"
  /\ exportHistory' = exported(exportHistory, logLevel, writable)
  /\ tdTrace' = Append(tdTrace, TdStep("generateTestSummary", ~writable))
  /\ UNCHANGED <<logLevel, runVars, loggerApiVars, console, dataVars, taskVars, validated,
                 plainUtilVars>>

\* Mutant: a failed export of the data ends the teardown with an error.
teardownExportData_aborts(writable) ==
  /\ tdPc = "exportData"
  /\ logs' = tdInfo(logs, logLevel, "Exporting test artifacts")
  /\ files' = exportDataFiles(files, testData, DataFile, writable)
  /\ console' = IF writable THEN console ELSE Append(console, ExportDataFailed)
  /\ tdPc' = IF writable THEN "exportLogs" ELSE "threw"
  /\ tdTrace' = Append(tdTrace, TdStep("exportData", ~writable))
  /\ UNCHANGED <<logLevel, runVars, loggerApiVars, dataVars, taskVars, validated, utilVars>>
\* exportTestArtifacts up to its first await: exportData on the data file.
teardownExportData(writable) ==
  /\ tdPc = "exportData"
  /\ logs' = tdInfo(logs, logLevel, "Exporting test artifacts")
  /\ files' = exportDataFiles(files, testData, DataFile, writable)
  /\ console' = IF writable THEN console ELSE Append(console, ExportDataFailed)
  /\ tdPc' = "exportLogs"
  /\ tdTrace' = Append(tdTrace, TdStep("exportData", ~writable))
  /\ UNCHANGED <<logLevel, runVars, loggerApiVars, dataVars, taskVars, validated, utilVars>>

\* exportTestArtifacts from there: exportLogs on the logs file and the closing log.
teardownExportLogs(writable) ==
  /\ tdPc = "exportLogs"
  /\ files' = exportLogsFiles(files, logs, LogsFile, writable)
  /\ logs' = tdInfo(exportLogsStore(logs, logLevel, LogsFile, writable), logLevel,
                    "Test artifacts exported successfully")
  /\ tdPc' = "cleanup"
  /\ exportHistory' = exported(exportHistory, logLevel, writable)
  /\ tdTrace' = Append(tdTrace, TdStep("exportLogs", ~writable))
  /\ UNCHANGED <<logLevel, runVars, loggerApiVars, console, dataVars, taskVars, validated,
                 plainUtilVars>>

\* Mutant: the report is generated before the stores are cleared.
teardownCleanup_afterReport ==
  /\ tdPc = "cleanup"
  /\ logs' = tdInfo(logs, logLevel, "Test data cleanup completed")
  /\ tdPc' = "report"
  /\ UNCHANGED exportHistory
  /\ tdTrace' = Append(tdTrace, TdStep("cleanupTestData", FALSE))
  /\ UNCHANGED <<logLevel, runVars, loggerApiVars, fsVars, dataVars, taskVars, validated,
                 plainUtilVars>>
\* cleanupTestData: clearData(), clearLogs(), and its closing log.
teardownCleanup ==
  /\ tdPc = "cleanup"
  /\ testData' = clearData(testData, UNDEFINED)
  /\ expected' = clearExpected(expected, UNDEFINED)
  /\ logs' = tdInfo(<<>>, logLevel, "Test data cleanup completed")
  /\ tdPc' = "report"
  /\ exportHistory' = cleared(exportHistory)
  /\ tdTrace' = Append(tdTrace, TdStep("cleanupTestData", FALSE))
  /\ UNCHANGED <<logLevel, runVars, loggerApiVars, fsVars, lastData, taskVars, validated,
                 plainUtilVars>>

\* generatePerformanceReport and the last log of globalTeardown.
teardownReport(writable) ==
  /\ tdPc = "report"
  /\ LET l1 == tdInfo(logs, logLevel, "Generating performance report")
         l2 == IF writable THEN tdInfo(l1, logLevel, "Performance report generated")
               ELSE error(l1, logLevel, Msg("Failed to generate performance report", 0),
                          UNDEFINED)
     IN /\ files' = IF writable
                    THEN [files EXCEPT ![ReportFile] = performanceReport(testData, l1)]
                    ELSE files
        /\ logs' = tdInfo(l2, logLevel, "Enhanced global teardown completed successfully")
  /\ tdPc' = "done"
  /\ tdTrace' = Append(tdTrace, TdStep("generatePerformanceReport", ~writable))
  /\ UNCHANGED <<logLevel, runVars, loggerApiVars, console, dataVars, taskVars, validated, utilVars>>

\* The tests that ran before the teardown left a log level, logs and data.
NextTeardown ==
  \/ tdPc = "idle" /\ \E l \in Levels : setLogLevel(l)
  \/ tdPc = "idle" /\ priorWarn
  \/ tdPc = "idle" /\ \E v \in FileValues : callStoreData("user", v)
  \/ \E writable \in BOOLEAN : teardownStart(writable)
  \/ \E writable \in BOOLEAN : teardownExportData(writable)
  \/ \E writable \in BOOLEAN : teardownExportLogs(writable)
  \/ teardownCleanup
  \/ \E writable \in BOOLEAN : teardownReport(writable)

\* A test run followed by globalTeardown.
SpecTeardown == Init /\ [][NextTeardown]_vars

\* ------------------------------------------------------------ validation
\* The data handed to a validator: an object with some fields, or a value
\* that is not an object (null, undefined, a number, a string).
SchemaFields == {"email", "password"}
ValidateValues == {"undefined", "1", "'x'", "'a@b.c'"}
ObjectData(f) == [kind |-> "object", fields |-> f]
NonObject(v) == [kind |-> "other", value |-> v]
DataInputs ==
  {ObjectData(f) : f \in UNION {[S -> ValidateValues] : S \in SUBSET SchemaFields}}
  \cup {NonObject(v) : v \in {"null", "undefined", "1", "'x'"}}

\* A schema: its entries in the order Object.entries yields them.
SchemaEntry(key, type) == [key |-> key, type |-> type]
SchemaTypes == {"string", "number"}
Schemas ==
  {<<>>}
  \cup {<<SchemaEntry(k, t)>> : k \in SchemaFields, t \in SchemaTypes}
  \cup {<<SchemaEntry("email", t1), SchemaEntry("password", t2)>> :
          t1 \in SchemaTypes, t2 \in SchemaTypes}

TypeError == [status |-> "threw", error |-> "TypeError"]

\* JavaScript truthiness of a stored value.
jsTruthy(v) == v \notin {"undefined", "null", "NaN"}

MissingField(key) == <<"Missing required field", key>>
WrongType(key, expectedType, actualType) ==
  <<"Field expected type", key, expectedType, actualType>>

\* The errors one schema entry contributes for the object with fields f.
fieldErrors(f, entry) ==
  IF entry.key \notin DOMAIN f THEN <<MissingField(entry.key)>>
  ELSE IF typeOf(f[entry.key]) # entry.type
  THEN <<WrongType(entry.key, entry.type, typeOf(f[entry.key]))>>
  ELSE <<>>

\* emailRegex.test(value)
emailRegexTest(v) == v = "'a@b.c'"
\* value.length < 8; the length of a value that is not a string is undefined
\* and the comparison false.
shorterThan8(v) == v \in {"'x'", "'a@b.c'"}

\* The warnings one schema entry contributes (validateData only).
fieldWarnings(f, entry) ==
  IF entry.key \notin DOMAIN f THEN <<>>
  ELSE (IF entry.key = "email" /\ jsTruthy(f[entry.key]) /\ ~emailRegexTest(f[entry.key])
        THEN <<<<"Email format may be invalid", f[entry.key]>>>> ELSE <<>>)
       \o (IF entry.key = "password" /\ jsTruthy(f[entry.key]) /\ shorterThan8(f[entry.key])
           THEN <<<<"Password may be too short", f[entry.key]>>>> ELSE <<>>)

RECURSIVE schemaErrors(_, _)
schemaErrors(f, schema) ==
  IF schema = <<>> THEN <<>>
  ELSE fieldErrors(f, Head(schema)) \o schemaErrors(f, Tail(schema))
RECURSIVE schemaWarnings(_, _)
schemaWarnings(f, schema) ==
  IF schema = <<>> THEN <<>>
  ELSE fieldWarnings(f, Head(schema)) \o schemaWarnings(f, Tail(schema))

\* TestDataManager.validateData: `key in data` throws a TypeError when data is
\* not an object and the schema has an entry.
validateData(data, schema) ==
  IF data.kind # "object" /\ schema # <<>> THEN TypeError
  ELSE LET f == IF data.kind = "object" THEN data.fields ELSE EmptyMap
           errors == schemaErrors(f, schema)
       IN [status |-> "returned", isValid |-> (Len(errors) = 0), errors |-> errors,
           warnings |-> schemaWarnings(f, schema)]

\* DataValidator.validateTestData
validateTestData(data, schema) ==
  IF data.kind # "object" /\ schema # <<>> THEN TypeError
  ELSE LET f == IF data.kind = "object" THEN data.fields ELSE EmptyMap
           errors == schemaErrors(f, schema)
       IN [status |-> "returned", isValid |-> (Len(errors) = 0), errors |-> errors]

\* The user names and passwords handed to validateCredentials: absent, empty,
\* blank, ordinary, and longer than 100 characters.
LongString == "<101 characters>"
CredentialValues == {UNDEFINED, "", " ", "Admin", LongString}
\* String.prototype.trim
trim(str) == IF str = " " THEN "" ELSE str
\* string.length > 100
longerThan100(str) == str = LongString

\* DataValidator.validateCredentials: reading `.length` of an absent user
\* name or password throws a TypeError.
validateCredentials(credentials) ==
  LET e1 == IF ~truthy(credentials.username) \/ trim(credentials.username) = ""
            THEN <<<<"Username is required">>>> ELSE <<>>
      e2 == IF ~truthy(credentials.password) \/ trim(credentials.password) = ""
            THEN <<<<"Password is required">>>> ELSE <<>>
  IN IF credentials.username = UNDEFINED THEN TypeError
     ELSE LET e3 == IF longerThan100(credentials.username)
                    THEN <<<<"Username is too long (max 100 characters)">>>> ELSE <<>>
          IN IF credentials.password = UNDEFINED THEN TypeError
             ELSE LET e4 == IF longerThan100(credentials.password)
                            THEN <<<<"Password is too long (max 100 characters)">>>>
                            ELSE <<>>
                      errors == e1 \o e2 \o e3 \o e4
                  IN [status |-> "returned", isValid |-> (Len(errors) = 0),
                      errors |-> errors]

callValidateData(data, schema) ==
  /\ validated' = [fn |-> "validateData", data |-> data, schema |-> schema,
                   result |-> validateData(data, schema)]
  /\ UNCHANGED <<logLevel, logs, runVars, loggerApiVars, fsVars, dataVars, taskVars, tdVars, utilVars>>

callValidateTestData(data, schema) ==
  /\ validated' = [fn |-> "validateTestData", data |-> data, schema |-> schema,
                   result |-> validateTestData(data, schema)]
  /\ UNCHANGED <<logLevel, logs, runVars, loggerApiVars, fsVars, dataVars, taskVars, tdVars, utilVars>>

callValidateCredentials(credentials) ==
  /\ validated' = [fn |-> "validateCredentials", data |-> credentials, schema |-> <<>>,
                   result |-> validateCredentials(credentials)]
  /\ UNCHANGED <<logLevel, logs, runVars, loggerApiVars, fsVars, dataVars, taskVars, tdVars, utilVars>>

NextValidate ==
  \/ \E data \in DataInputs, schema \in Schemas : callValidateData(data, schema)
  \/ \E data \in DataInputs, schema \in Schemas : callValidateTestData(data, schema)
  \/ \E credentials \in [username : CredentialValues, password : CredentialValues] :
       callValidateCredentials(credentials)

\* The validators applied to every input within the bounds.
SpecValidate == Init /\ [][NextValidate]_vars

\* -------------------------------------------------------- data generation
\* Field values: a value the generator computes, a value the caller passed in
\* customFields, the id and the uniqueId of the n-th record of a batch.
BaseValue == <<"generated", 0>>
CustomValue == <<"custom", 0>>
IdValue(n) == <<"index", n>>
UniqueIdValue(n) == <<"uniqueId_index", n>>

\* { ...a, ...b }
spread(a, b) ==
  [k \in DOMAIN a \cup DOMAIN b |-> IF k \in DOMAIN b THEN b[k] ELSE a[k]]

\* An object literal with the given keys, all values computed by the generator.
baseRecord(keys) == [k \in keys |-> BaseValue]

GenerateTypes == {"employee", "user", "leave", "performance", "admin", "custom"}
\* The keys customFields may have: one that every base record lacks, one that
\* some base records have, and the two the batch adds.
CustomKeys == {"note", "email", "id", "uniqueId"}
CustomFieldMaps == UNION {[S -> {CustomValue}] : S \in SUBSET CustomKeys}

\* TestDataManager.generateData, baseData: the keys of each type's literal.
dataBase(type, customFields) ==
  CASE type = "employee" ->
         baseRecord({"firstName", "lastName", "employeeId", "email", "middleName",
                     "nickname", "otherId", "driverLicenseNumber", "licenseExpiryDate",
                     "gender", "maritalStatus", "nationality", "dateOfBirth", "address",
                     "contact"})
    [] type = "user" ->
         baseRecord({"username", "password", "confirmPassword", "userRole", "status",
                     "employeeName", "email"})
    [] type = "leave" ->
         baseRecord({"leaveType", "fromDate", "toDate", "comment", "duration", "status"})
    [] type = "performance" ->
         baseRecord({"employeeName", "reviewPeriod", "jobTitle", "department",
                     "reviewDate", "reviewer", "goals", "achievements"})
    [] type = "admin" ->
         baseRecord({"username", "password", "userRole", "status", "employeeName",
                     "email"})
    [] type = "custom" -> customFields
    [] OTHER -> EmptyMap

\* TestDataManager.generateData: the records it returns (one record, or the
\* array of count records).
generateData(type, customFields, count) ==
  LET finalData == spread(dataBase(type, customFields), customFields)
  IN IF count > 1
     THEN [i \in 1..count |->
             spread(finalData, [id |-> IdValue(i), uniqueId |-> UniqueIdValue(i)])]
     ELSE <<finalData>>

HelperTypes == {"employee", "leave", "performance", "user"}
\* TestHelpers.generateTestData
generateTestData(type, customFields) ==
  LET baseData ==
        CASE type = "employee" ->
               baseRecord({"firstName", "lastName", "employeeId", "email"})
          [] type = "leave" -> baseRecord({"leaveType", "fromDate", "toDate", "comment"})
          [] type = "performance" ->
               baseRecord({"employeeName", "reviewPeriod", "jobTitle"})
          [] type = "user" -> baseRecord({"username", "password"})
          [] OTHER -> EmptyMap
  IN <<spread(baseData, customFields)>>

callGenerateData(type, customFields, count) ==
  /\ generated' = [fn |-> "generateData", type |-> type, customFields |-> customFields,
                   count |-> count, records |-> generateData(type, customFields, count)]
  /\ UNCHANGED <<logLevel, logs, runVars, loggerApiVars, fsVars, dataVars, taskVars,
                 tdVars, validated,
                 guarded,
                 actualValue,
                 errorCount,
                 errorLog,
                 errorPc,
                 exportHistory,
                 form>>

callGenerateTestData(type, customFields) ==
  /\ generated' = [fn |-> "generateTestData", type |-> type,
                   customFields |-> customFields, count |-> 1,
                   records |-> generateTestData(type, customFields)]
  /\ UNCHANGED <<logLevel, logs, runVars, loggerApiVars, fsVars, dataVars, taskVars,
                 tdVars, validated,
                 guarded,
                 actualValue,
                 errorCount,
                 errorLog,
                 errorPc,
                 exportHistory,
                 form>>

NextGenerate ==
  \/ \E type \in GenerateTypes, customFields \in CustomFieldMaps, count \in 0..MaxCount :
       callGenerateData(type, customFields, count)
  \/ \E type \in HelperTypes, customFields \in CustomFieldMaps :
       callGenerateTestData(type, customFields)

\* The data generators applied to every input within the bounds.
SpecGenerate == Init /\ [][NextGenerate]_vars

\* ------------------------------------- operations with a takeScreenshot option
NoError == [type |-> "none"]
\* The error of a step of the operation itself (a fill, a click, a wait).
OperationError == [type |-> "OperationError"]
\* The error page.screenshot rejects with.
ScreenshotError == [type |-> "ScreenshotError"]

\* The progress of an operation: the error in flight (NoError while it runs
\* normally) and the number of page.screenshot calls made so far.
Started == [error |-> NoError, shots |-> 0]
\* env[n]: whether the n-th page.screenshot call of the operation succeeds.
ScreenshotEnvs == [1..MaxShots -> BOOLEAN]

\* An awaited step of a try block: skipped when an earlier one has thrown.
awaitStep(r, fails) ==
  IF r.error # NoError THEN r
  ELSE [r EXCEPT !.error = IF fails THEN OperationError ELSE NoError]

\* BasePage.takeScreenshotEnhanced: logs the failure and rethrows it.
takeScreenshotEnhanced(r, env) ==
  [error |-> IF env[r.shots + 1] THEN r.error ELSE ScreenshotError,
   shots |-> r.shots + 1]
\* TestUtils.takeScreenshot: logs the failure and returns.
takeScreenshot(r, env) == [r EXCEPT !.shots = r.shots + 1]

\* `if (takeScreenshot) await this.takeScreenshotEnhanced(..)` at the end of a
\* try block, and the same in its catch block before `throw error`.
shotInTry(r, ts, env) ==
  IF r.error = NoError /\ ts THEN takeScreenshotEnhanced(r, env) ELSE r
shotInCatch(r, ts, env) ==
  IF r.error # NoError /\ ts THEN takeScreenshotEnhanced(r, env) ELSE r

\* LoginPage.login, entered at progress r: the fills and the click, then the
\* screenshot; the catch block takes another screenshot and rethrows.
login(r, fails, ts, env) ==
  shotInCatch(shotInTry(awaitStep(r, fails), ts, env), ts, env)

\* DashboardPage.clickMenu
clickMenu(r, fails, ts, env) ==
  shotInCatch(shotInTry(awaitStep(r, fails), ts, env), ts, env)

\* DashboardPage.navigateToModule: clickMenu, the waits for the module, the
\* screenshot; the catch block as above.
navigateToModule(failClick, failLoad, ts, env) ==
  LET clicked == clickMenu(Started, failClick, ts, env)
      loaded == awaitStep(clicked, failLoad)
  IN shotInCatch(shotInTry(loaded, ts, env), ts, env)

\* TestHelpers.performLogin: goto and the form checks, then LoginPage.login;
\* the catch block takes a screenshot and rethrows.
performLogin(failGoto, failLogin, ts, env) ==
  LET ready == awaitStep(Started, failGoto)
      loggedIn == IF ready.error = NoError THEN login(ready, failLogin, ts, env)
                  ELSE ready
  IN shotInCatch(loggedIn, ts, env)

\* TestUtils.performCompleteLogin: goto, LoginPage.login, the waits for the
\* dashboard; its own screenshots are taken with TestUtils.takeScreenshot.
performCompleteLogin(failGoto, failLogin, failWait, ts, env) ==
  LET ready == awaitStep(Started, failGoto)
      loggedIn == IF ready.error = NoError THEN login(ready, failLogin, ts, env)
                  ELSE ready
      waited == awaitStep(loggedIn, failWait)
  IN IF ts THEN takeScreenshot(waited, env) ELSE waited

\* The record of a call: whether a step of the operation itself failed, the
\* option, the environment, and the outcome.
GuardedCalled(fn, failed, ts, env, r) ==
  guarded' = [fn |-> fn, failed |-> failed, takeScreenshot |-> ts, env |-> env,
              error |-> r.error, shots |-> r.shots]

callLogin(fails, ts, env) ==
  /\ GuardedCalled("LoginPage.login", fails, ts, env, login(Started, fails, ts, env))
  /\ UNCHANGED <<logLevel, logs, runVars, loggerApiVars, fsVars, dataVars, taskVars,
                 tdVars, validated, generated,
                 actualValue,
                 errorCount,
                 errorLog,
                 errorPc,
                 exportHistory,
                 form>>

callClickMenu(fails, ts, env) ==
  /\ GuardedCalled("DashboardPage.clickMenu", fails, ts, env,
                   clickMenu(Started, fails, ts, env))
  /\ UNCHANGED <<logLevel, logs, runVars, loggerApiVars, fsVars, dataVars, taskVars,
                 tdVars, validated, generated,
                 actualValue,
                 errorCount,
                 errorLog,
                 errorPc,
                 exportHistory,
                 form>>

callNavigateToModule(failClick, failLoad, ts, env) ==
  /\ GuardedCalled("DashboardPage.navigateToModule", failClick \/ failLoad, ts, env,
                   navigateToModule(failClick, failLoad, ts, env))
  /\ UNCHANGED <<logLevel, logs, runVars, loggerApiVars, fsVars, dataVars, taskVars,
                 tdVars, validated, generated,
                 actualValue,
                 errorCount,
                 errorLog,
                 errorPc,
                 exportHistory,
                 form>>

callPerformLogin(failGoto, failLogin, ts, env) ==
  /\ GuardedCalled("TestHelpers.performLogin", failGoto \/ failLogin, ts, env,
                   performLogin(failGoto, failLogin, ts, env))
  /\ UNCHANGED <<logLevel, logs, runVars, loggerApiVars, fsVars, dataVars, taskVars,
                 tdVars, validated, generated,
                 actualValue,
                 errorCount,
                 errorLog,
                 errorPc,
                 exportHistory,
                 form>>

\* The entries performCompleteLogin appends: the start, then the completion
\* or the failure.
completeLoginLogs(store, cur, logSteps, r, testName) ==
  LET begun == IF logSteps
               THEN info(store, cur, Msg("Starting login process", 0), testName)
               ELSE store
  IN IF r.error = NoError
     THEN IF logSteps
          THEN info(begun, cur, Msg("Login completed successfully", 0), testName)
          ELSE begun
     ELSE error(begun, cur, Msg("Login failed for user", 0), testName)

callPerformCompleteLogin(failGoto, failLogin, failWait, ts, env, logSteps, testName) ==
  LET r == performCompleteLogin(failGoto, failLogin, failWait, ts, env)
  IN /\ Len(logs) + 2 <= MaxLogs
     /\ GuardedCalled("TestUtils.performCompleteLogin",
                      failGoto \/ failLogin \/ failWait, ts, env, r)
     /\ logs' = completeLoginLogs(logs, logLevel, logSteps, r, testName)
     /\ UNCHANGED <<logLevel, runVars, loggerApiVars, fsVars, dataVars, taskVars,
                    tdVars, validated, generated,
                 actualValue,
                 errorCount,
                 errorLog,
                 errorPc,
                 exportHistory,
                 form>>

NextScreenshot ==
  \/ \E fails, ts \in BOOLEAN, env \in ScreenshotEnvs : callLogin(fails, ts, env)
  \/ \E fails, ts \in BOOLEAN, env \in ScreenshotEnvs : callClickMenu(fails, ts, env)
  \/ \E failClick, failLoad, ts \in BOOLEAN, env \in ScreenshotEnvs :
       callNavigateToModule(failClick, failLoad, ts, env)
  \/ \E failGoto, failLogin, ts \in BOOLEAN, env \in ScreenshotEnvs :
       callPerformLogin(failGoto, failLogin, ts, env)
  \/ Len(logs) + 2 <= MaxLogs
     /\ \E failGoto, failLogin, failWait, ts, logSteps \in BOOLEAN,
           env \in ScreenshotEnvs :
          callPerformCompleteLogin(failGoto, failLogin, failWait, ts, env, logSteps, "a")

\* The operations that take a screenshot, under every outcome of their steps
\* and of each page.screenshot call.
SpecScreenshot == Init /\ [][NextScreenshot]_vars

\* ------------------------------------------------------------ ErrorHandler
\* The entry logError pushes; the time stamp, the message and the stack play
\* no part in the counts and are left out.
ErrorEntry(testName, screenshot) == [testName |-> testName, screenshot |-> screenshot]
\* The path of the screenshot taken for an error of the given test.
ErrorShot(testName) == <<"test-results/errors", testName>>

\* The logError calls suspended at page.screenshot.
LoggingErrors == {t \in TestNames : errorPc[t] # "idle"}

\* ErrorHandler.logError up to its first await: the count, the entry, and
\* with a page the call of page.screenshot; without a page there is no await
\* and the entry is pushed at once.
logErrorCall(t, page) ==
  /\ errorPc[t] = "idle"
  /\ Len(errorLog) + Cardinality(LoggingErrors) < MaxErrors
  /\ errorCount' = errorCount + 1
  /\ IF page
     THEN /\ errorPc' = [errorPc EXCEPT ![t] = "screenshot"]
          /\ UNCHANGED errorLog
     ELSE /\ errorLog' = Append(errorLog, ErrorEntry(t, UNDEFINED))
          /\ UNCHANGED errorPc
  /\ UNCHANGED <<logLevel, logs, runVars, loggerApiVars, fsVars, dataVars, taskVars,
                 tdVars, validated, generated, guarded, actualValue,
                 exportHistory,
                 form>>

\* page.screenshot resolves: the path is recorded and the entry pushed.
logErrorScreenshotResolves(t) ==
  /\ errorPc[t] = "screenshot"
  /\ errorLog' = Append(errorLog, ErrorEntry(t, ErrorShot(t)))
  /\ errorPc' = [errorPc EXCEPT ![t] = "idle"]
  /\ UNCHANGED <<logLevel, logs, runVars, loggerApiVars, fsVars, dataVars, taskVars,
                 tdVars, validated, generated, guarded, actualValue, errorCount,
                 exportHistory,
                 form>>

\* page.screenshot rejects: the catch block warns, the entry is pushed
\* without a path.
logErrorScreenshotRejects(t) ==
  /\ errorPc[t] = "screenshot"
  /\ errorLog' = Append(errorLog, ErrorEntry(t, UNDEFINED))
  /\ errorPc' = [errorPc EXCEPT ![t] = "idle"]
  /\ UNCHANGED <<logLevel, logs, runVars, loggerApiVars, fsVars, dataVars, taskVars,
                 tdVars, validated, generated, guarded, actualValue, errorCount,
                 exportHistory,
                 form>>

\* ErrorHandler.clearErrorLog
clearErrorLog ==
  /\ errorCount' = 0
  /\ errorLog' = <<>>
  /\ UNCHANGED <<logLevel, logs, runVars, loggerApiVars, fsVars, dataVars, taskVars,
                 tdVars, validated, generated, guarded, actualValue, errorPc,
                 exportHistory,
                 form>>

\* this.errorLog.slice(-10)
recent(entries) ==
  SubSeq(entries, IF Len(entries) > RecentLimit THEN Len(entries) - RecentLimit + 1 ELSE 1,
         Len(entries))

\* ErrorHandler.getErrorStats
getErrorStats(count, entries) ==
  [totalErrors |-> count,
   errorsByTest |-> [t \in {entries[i].testName : i \in 1..Len(entries)} |->
                       Cardinality({i \in 1..Len(entries) : entries[i].testName = t})],
   recentErrors |-> [i \in 1..Len(recent(entries)) |->
                       [testName |-> recent(entries)[i].testName]]]

NextErrors ==
  \/ \E t \in TestNames, page \in BOOLEAN : logErrorCall(t, page)
  \/ \E t \in TestNames : logErrorScreenshotResolves(t)
  \/ \E t \in TestNames : logErrorScreenshotRejects(t)
  \/ clearErrorLog

\* Concurrent logError calls and clearErrorLog.
SpecErrors == Init /\ [][NextErrors]_vars

\* The same without clearErrorLog.
NextErrorsNoClear ==
  \/ \E t \in TestNames, page \in BOOLEAN : logErrorCall(t, page)
  \/ \E t \in TestNames : logErrorScreenshotResolves(t)
  \/ \E t \in TestNames : logErrorScreenshotRejects(t)

SpecErrorsNoClear == Init /\ [][NextErrorsNoClear]_vars

\* -------------------------------------------------------- waitForFormReady
FormPages == {"LoginPage", "ForgotPasswordPage"}
\* The optional argument `timeout`: absent, or a number of milliseconds.
NoTimeout == [given |-> FALSE, ms |-> 0]
Timeout(ms) == [given |-> TRUE, ms |-> ms]
Timeouts == {NoTimeout} \cup {Timeout(ms) : ms \in {-100, 0, 100, 300}}
\* The time an isFormReady poll can take.
PollTimes == {n * PollInterval : n \in 0..MaxPollTicks}

\* Mutant: only an absent timeout takes the default.
maxWaitOf_nullish(timeout) == IF timeout.given THEN timeout.ms ELSE DefaultTimeout
\* timeout || this.TIMEOUTS.DEFAULT
maxWaitOf(timeout) ==
  IF timeout.given /\ timeout.ms # 0 THEN timeout.ms ELSE DefaultTimeout

\* new Error(`Form not ready within ${maxWait}ms`)
FormNotReady(maxWait) == [type |-> "Error", message |-> <<"Form not ready within", maxWait>>]

\* The test of the while loop at the given time since startTime: the next
\* poll, or the throw after the loop.
formLoop(f, elapsed) ==
  IF elapsed < f.maxWait
  THEN [f EXCEPT !.pc = "polling", !.elapsed = elapsed, !.sleep = 0]
  ELSE [f EXCEPT !.pc = "threw", !.elapsed = elapsed, !.sleep = 0,
                 !.error = FormNotReady(f.maxWait)]

\* waitForFormReady up to its first await.
waitForFormReadyCall(page, timeout) ==
  /\ form.pc = "idle"
  /\ form' = formLoop([NoFormWait EXCEPT !.page = page, !.timeout = timeout,
                                         !.maxWait = maxWaitOf(timeout)], 0)
  /\ UNCHANGED <<logLevel, logs, runVars, loggerApiVars, fsVars, dataVars, taskVars,
                 tdVars, validated, generated, guarded, actualValue, errorCount,
                 errorLog, errorPc, exportHistory>>

\* isFormReady resolves with true or false after d ms: every isEnabled call
\* resolved. True returns; false goes on to waitForTimeout(100).
isFormReadyResolves(ready, d) ==
  /\ form.pc = "polling"
  /\ form' = IF ready
             THEN [form EXCEPT !.pc = "returned", !.elapsed = form.elapsed + d,
                               !.lastPoll = "ready"]
             ELSE [form EXCEPT !.pc = "sleeping", !.elapsed = form.elapsed + d,
                               !.lastPoll = "not ready", !.sleep = PollInterval]
  /\ UNCHANGED <<logLevel, logs, runVars, loggerApiVars, fsVars, dataVars, taskVars,
                 tdVars, validated, generated, guarded, actualValue, errorCount,
                 errorLog, errorPc, exportHistory>>

\* An isEnabled call rejects: the catch block of isFormReady logs to the
\* console and returns false.
isFormReadyCatches(d) ==
  /\ form.pc = "polling"
  /\ form' = [form EXCEPT !.pc = "sleeping", !.elapsed = form.elapsed + d,
                          !.lastPoll = "error", !.sleep = PollInterval]
  /\ UNCHANGED <<logLevel, logs, runVars, loggerApiVars, fsVars, dataVars, taskVars,
                 tdVars, validated, generated, guarded, actualValue, errorCount,
                 errorLog, errorPc, exportHistory>>

\* The timer of waitForTimeout fires, and the loop test is made again.
formTimerFires ==
  /\ form.pc = "sleeping"
  /\ form' = formLoop(form, form.elapsed + form.sleep)
  /\ UNCHANGED <<logLevel, logs, runVars, loggerApiVars, fsVars, dataVars, taskVars,
                 tdVars, validated, generated, guarded, actualValue, errorCount,
                 errorLog, errorPc, exportHistory>>

NextForm ==
  \/ \E page \in FormPages, timeout \in Timeouts : waitForFormReadyCall(page, timeout)
  \/ \E ready \in BOOLEAN, d \in PollTimes : isFormReadyResolves(ready, d)
  \/ \E d \in PollTimes : isFormReadyCatches(d)
  \/ formTimerFires

\* waitForFormReady with a page that answers every poll and a timer that
\* fires: the isEnabled calls settle (Playwright bounds them by its own
\* timeout) and the event loop runs every timer that is due.
SpecForm ==
  /\ Init /\ [][NextForm]_vars
  /\ WF_vars(\E ready \in BOOLEAN, d \in PollTimes : isFormReadyResolves(ready, d))
  /\ WF_vars(formTimerFires)

NextData ==
  \/ \E k \in Keys, v \in JSValues : callStoreData(k, v)
  \/ \E k \in Keys : callGetData(k)
  \/ \E k \in Keys \cup {UNDEFINED} : callClearData(k)
  \/ \E k \in Keys \cup {UNDEFINED}, t \in TestNames : clearStoredTestData(k, t)
  \/ callGetDataSummary

\* The TestDataManager store under direct calls.
SpecData == Init /\ [][NextData]_vars

Next ==
  \/ \E l \in Levels : setLogLevel(l)
  \/ pc = "idle" /\ \E o \in Policies : performCall(o)
  \/ performResolves
  \/ performRejects
  \/ performTimerFires
  \/ pc = "idle" /\ \E o \in Policies : helpersRetryCall(o)
  \/ helpersRetryResolves
  \/ helpersRetryRejects
  \/ helpersRetryTimerFires
  \/ pc = "idle" /\ \E o \in Policies : utilsRetryCall(o)
  \/ utilsRetryResolves
  \/ utilsRetryRejects
  \/ utilsRetryTimerFires
  \/ pc = "idle" /\ \E o \in PageOptions : clickCall(o)
  \/ clickStepResolves
  \/ clickStepRejects
  \/ clickTimerFires
  \/ pc = "idle" /\ \E o \in PageOptions : fillCall(o)
  \/ \E same \in BOOLEAN : fillStepResolves(same)
  \/ fillStepRejects
  \/ fillTimerFires
  \/ pc = "idle" /\ \E o \in PageOptions : waitForElementCall(o)
  \/ waitForElementResolves
  \/ waitForElementRejects
  \/ waitForElementTimerFires
  \/ priorWarn

NextLog ==
  \/ \E l \in Levels : setLogLevel(l)
  \/ \E t \in DirectTestNames : callDebug(t)
  \/ \E t \in DirectTestNames : callInfo(t)
  \/ \E t \in DirectTestNames : callWarn(t)
  \/ \E t \in DirectTestNames : callError(t)
  \/ \E l \in Levels : callGetLogsByLevel(l)
  \/ \E t \in DirectTestNames : callGetLogsByTest(t)
  \/ clearLogs

NextExport ==
  \/ \E l \in Levels : setLogLevel(l)
  \/ Len(logs) < MaxExportLogs /\ \E t \in DirectTestNames : callInfo(t)
  \/ callGetLogs
  \/ \E l \in Levels : callGetLogsByLevel(l)
  \/ \E t \in DirectTestNames : callGetLogsByTest(t)
  \/ Len(logs) <= MaxExportLogs /\
       \E f \in LogFileNames, writable \in BOOLEAN : exportLogs(f, writable)
  \/ clearLogs

Spec == Init /\ [][Next]_vars
NextFault ==
  \/ \E l \in Levels : setLogLevel(l)
  \/ pc = "idle" /\ \E o \in Policies : performCall(o)
  \/ performResolves
  \/ performRejects
  \/ performTimerFires
  \/ pc = "idle" /\ \E o \in Policies, pushed \in BOOLEAN : performCallLogRaises(o, pushed)
  \/ \E pushed \in BOOLEAN : performResolvesLogRaises(pushed)
  \/ \E which \in {"warn", "retrying", "exhausted"}, pushed \in BOOLEAN :
       performRejectsLogRaises(which, pushed)
  \/ performTimerRaises

\* performActionWithRetry in an environment where TestLogger and the timer
\* may raise.
SpecFault == Init /\ [][NextFault]_vars

\* The TestLogger store under direct calls.
SpecLog == Init /\ [][NextLog]_vars

\* The TestLogger store with its export to a file.
SpecExport == Init /\ [][NextExport]_vars

\* ================================================================== claims
PolicyHelpers ==
  {"performActionWithRetry", "TestHelpers.retryOperation", "TestUtils.retryOperation"}
CappedHelpers == {"performActionWithRetry", "TestHelpers.retryOperation"}
PageHelpers == {"clickWithRetry", "fillWithRetry", "waitForElementEnhanced"}

Finished == pc \in {"returned", "threw"}
Count(ev) == Cardinality({i \in DOMAIN trace : trace[i].ev = ev})
Invocations == Count("invoke")
Happened(ev, n) == \E i \in DOMAIN trace : trace[i] = Ev(ev, n)
\* The delays waited so far, in order.
Delays ==
  LET s == SelectSeq(trace, LAMBDA e : e.ev = "sleep")
  IN [i \in 1..Len(s) |-> s[i].n]
\* The entries the running helper call has appended.
NewLogs == SubSeq(logs, logBase + 1, Len(logs))
CountLevel(s, l) == Cardinality({i \in DOMAIN s : s[i].level = l})

\* C1: with maxRetries = N >= 1 the action is never invoked more than N
\* times; when every invocation failed and the helper has finished, the
\* action was invoked exactly N times and the helper threw the error of the
\* N-th invocation.
C1_BoundedAttempts ==
  (helper \in PolicyHelpers /\ opts.maxRetries >= 1) =>
    /\ Invocations <= opts.maxRetries
    /\ (Finished /\ Count("resolved") = 0) =>
         /\ Invocations = opts.maxRetries
         /\ \A n \in 1..opts.maxRetries : Happened("rejected", n)
         /\ outcome = [status |-> "threw",
                       value |-> ActionError("action", opts.maxRetries)]

C1_Witness ==
  /\ helper = "TestUtils.retryOperation" /\ opts.maxRetries = 3
  /\ pc = "threw" /\ Invocations = 3 /\ Count("rejected") = 3

\* C2: when the action fails on invocations 1..k-1 and succeeds on
\* invocation k <= N, the helper returns the value of invocation k, the action
\* was invoked exactly k times and is never invoked after the success.
C2_EarlySuccess ==
  (helper \in PolicyHelpers /\ opts.maxRetries >= 1) =>
    \A k \in 1..opts.maxRetries :
      Happened("resolved", k) =>
        /\ \A n \in 1..(k - 1) : Happened("rejected", n)
        /\ outcome = [status |-> "returned", value |-> ActionValue(k)]
        /\ Invocations = k
        /\ trace[Len(trace)] = Ev("resolved", k)

C2_Witness ==
  /\ helper = "performActionWithRetry" /\ opts.maxRetries = 3
  /\ pc = "returned" /\ Happened("rejected", 1) /\ Happened("resolved", 2)

\* baseDelay * multiplier^(a-1) as a product of a-1 factors.
RECURSIVE Geometric(_, _, _)
Geometric(b, m, a) == IF a <= 1 THEN b ELSE m * Geometric(b, m, a - 1)
ContractDelay(o, a) ==
  IF Geometric(o.baseDelay, o.backoffMultiplier, a) <= o.maxDelay
  THEN Geometric(o.baseDelay, o.backoffMultiplier, a)
  ELSE o.maxDelay

\* C3: in performActionWithRetry and TestHelpers.retryOperation there is one
\* delay after each failed attempt a < maxRetries, and it equals
\* min(baseDelay * backoffMultiplier^(a-1), maxDelay).
C3_DelayContract ==
  helper \in CappedHelpers =>
    /\ \A a \in 1..Len(Delays) :
         a < opts.maxRetries /\ Delays[a] = ContractDelay(opts, a)
    /\ \A a \in 1..(opts.maxRetries - 1) :
         (Happened("rejected", a) /\ pc # "awaiting") => Len(Delays) >= a
    /\ pc = "sleeping" => sleepFor = ContractDelay(opts, attempt)

C3_Witness ==
  /\ helper = "TestHelpers.retryOperation"
  /\ opts.baseDelay = 1 /\ opts.backoffMultiplier = 2 /\ opts.maxDelay = 3
  /\ Len(Delays) = 2 /\ Delays[1] = 1 /\ Delays[2] = 2

ValidPolicy(o) ==
  o.baseDelay >= 0 /\ o.backoffMultiplier >= 1 /\ o.maxDelay >= o.baseDelay
NonDecreasing(s) == \A i \in 1..(Len(s) - 1) : s[i] <= s[i + 1]

\* C4 as claimed: for every valid policy the delays of a run of any of the
\* three helpers are non-decreasing and each is at most maxDelay.
C4_Claimed ==
  (helper \in PolicyHelpers /\ ValidPolicy(opts)) =>
    /\ NonDecreasing(Delays)
    /\ \A i \in 1..Len(Delays) : Delays[i] <= opts.maxDelay

\* C4 amended: for every valid policy the delays of a run are non-decreasing
\* in all three helpers; each is at most maxDelay in performActionWithRetry
\* and TestHelpers.retryOperation.  TestUtils.retryOperation has neither a
\* maxDelay nor a multiplier: its a-th delay is baseDelay * 2^(a-1).
C4_BackoffMonotoneBounded ==
  (helper \in PolicyHelpers /\ ValidPolicy(opts)) =>
    /\ NonDecreasing(Delays)
    /\ helper \in CappedHelpers => \A i \in 1..Len(Delays) : Delays[i] <= opts.maxDelay
    /\ helper = "TestUtils.retryOperation" =>
         \A a \in 1..Len(Delays) : Delays[a] = Geometric(opts.baseDelay, 2, a)

C4_Witness ==
  /\ helper = "performActionWithRetry" /\ ValidPolicy(opts)
  /\ opts.baseDelay = 2 /\ opts.backoffMultiplier = 2 /\ opts.maxDelay = 3
  /\ Delays = <<2, 3>>

\* C5: attempts are sequential: the first event of a call is invocation 1;
\* every invocation is settled before anything else happens; invocation n+1
\* starts only after invocation n was rejected, the delay for attempt n was
\* started and that same delay has elapsed.
C5_Sequential ==
  helper # "none" =>
    /\ Count("invoke") - (Count("resolved") + Count("rejected"))
         = (IF pc = "awaiting" THEN 1 ELSE 0)
    /\ \A i \in DOMAIN trace :
         trace[i].ev = "invoke" =>
           /\ i < Len(trace) =>
                trace[i + 1] \in {Ev("resolved", trace[i].n), Ev("rejected", trace[i].n)}
           /\ IF trace[i].n = 1 THEN i = 1
              ELSE /\ i >= 4
                   /\ trace[i - 3] = Ev("rejected", trace[i].n - 1)
                   /\ trace[i - 2].ev = "sleep"
                   /\ trace[i - 1] = Ev("woke", trace[i - 2].n)
    /\ pc = "sleeping" => trace[Len(trace)] = Ev("sleep", sleepFor)

C5_Witness ==
  /\ helper = "clickWithRetry" /\ pc = "awaiting" /\ attempt = 3
  /\ Count("woke") = 2 /\ Count("rejected") = 2

\* C6: at the default level (info) one call of performActionWithRetry appends
\* one warn entry per failed attempt, one error entry exactly when all
\* maxRetries attempts failed, and nothing else; every entry it appends
\* carries the caller's testName.
C6_RetryLogging ==
  (helper = "performActionWithRetry" /\ logLevel = "info") =>
    /\ CountLevel(NewLogs, "warn") = Count("rejected")
    /\ CountLevel(NewLogs, "error")
         = (IF Count("rejected") = opts.maxRetries THEN 1 ELSE 0)
    /\ Len(NewLogs) = CountLevel(NewLogs, "warn") + CountLevel(NewLogs, "error")
    /\ \A i \in DOMAIN NewLogs : NewLogs[i].testName = opts.testName
    /\ \A k \in 1..opts.maxRetries :
         Happened("resolved", k) =>
           CountLevel(NewLogs, "warn") = k - 1 /\ CountLevel(NewLogs, "error") = 0

C6_Witness ==
  /\ helper = "performActionWithRetry" /\ logLevel = "info" /\ logBase = 1
  /\ opts.testName = "a" /\ opts.maxRetries = 3 /\ pc = "threw"
  /\ CountLevel(NewLogs, "warn") = 3 /\ CountLevel(NewLogs, "error") = 1

\* C7 as claimed: when a TestLogger call or the timer raises, the call throws
\* that error at once, and the action is never invoked after a raise or
\* after an invocation that succeeded.
C7_InfrastructureErrorsPropagate ==
  helper = "performActionWithRetry" =>
    \A i \in DOMAIN trace :
      /\ trace[i].ev \in {"logRaised", "timerRaised"} =>
           /\ pc = "threw"
           /\ outcome.value = (IF trace[i].ev = "logRaised" THEN LoggerError
                               ELSE TimerError)
      /\ trace[i].ev \in {"logRaised", "timerRaised", "resolved"} =>
           \A j \in (i + 1)..Len(trace) : trace[j].ev # "invoke"

Rank == [l \in Levels |->
           CASE l = "debug" -> 0 [] l = "info" -> 1 [] l = "warn" -> 2 [] l = "error" -> 3]

\* C9: a debug/info/warn/error call appends exactly one entry, made of its
\* arguments, when its level is at least the minimum level in the order
\* debug < info < warn < error, and leaves the store as it was otherwise.
C9_LevelFilter ==
  lastCall.op \in Levels =>
    logs = (IF Rank[lastCall.op] >= Rank[logLevel]
            THEN lastCall.before \o <<[level |-> lastCall.op, message |-> lastCall.arg,
                                       testName |-> lastCall.testName]>>
            ELSE lastCall.before)

C9_Witness ==
  /\ logLevel = "warn" /\ lastCall.op = "info"
  /\ Len(logs) = 2 /\ logs[1].level = "warn" /\ logs[2].level = "error"

\* The k-th smallest element of a set of indices.
Kth(I, k) == CHOOSE i \in I : Cardinality({j \in I : j < i}) = k - 1
\* `r` holds exactly the elements of `s` at the indices `I`, in index order.
IsSelection(r, s, I) ==
  /\ Len(r) = Cardinality(I)
  /\ \A k \in 1..Len(r) : r[k] = s[Kth(I, k)]

\* C10: getLogsByTest(t) returns exactly the stored entries whose testName is
\* t, and getLogsByLevel(l) exactly those whose level is l, in the order in
\* which they were appended.
C10_QueryCorrect ==
  /\ lastCall.op = "getLogsByTest" =>
       IsSelection(queryResult, logs,
                   {i \in DOMAIN logs : logs[i].testName = lastCall.arg})
  /\ lastCall.op = "getLogsByLevel" =>
       IsSelection(queryResult, logs,
                   {i \in DOMAIN logs : logs[i].level = lastCall.arg})

C10_Witness ==
  /\ lastCall.op = "getLogsByTest" /\ lastCall.arg = "a"
  /\ Len(logs) = 3 /\ logs[1].testName = "a" /\ logs[2].testName = "b"
  /\ logs[3].testName = "a"
  /\ queryResult = <<logs[1], logs[3]>>

\* ------------------------------------------------------------ log export
IsPrefix(s, t) == Len(s) <= Len(t) /\ \A i \in 1..Len(s) : t[i] = s[i]

\* C11: the log store is append-only: every TestLogger operation other than
\* clearLogs (an append, setLogLevel, getLogs, getLogsByLevel, getLogsByTest,
\* exportLogs) leaves the entries stored before it present, unchanged and in
\* the same order at the front of the store; nothing is evicted.
C11_AppendOnly ==
  lastCall.op # "clearLogs" => IsPrefix(lastCall.before, logs)

\* An export made on a non-empty store added its own entry behind the others.
C11_Witness ==
  /\ lastCall.op = "exportLogs"
  /\ Len(lastCall.before) >= 1
  /\ Len(logs) = Len(lastCall.before) + 1
  /\ IsPrefix(lastCall.before, logs)

\* ------------------------------------------------------------ data store
\* C16: last write wins: after any sequence of storeData and clearData calls,
\* getData(k) returns the value of the most recent storeData(k, v) that no
\* later clear of k (or of the whole store) followed, and undefined if there
\* is none.
C16_LastWriteWins ==
  lastData.op = "getData" =>
    lastData.result = (IF lastData.key \in DOMAIN expected
                       THEN expected[lastData.key] ELSE "undefined")

\* C17: clearData(key) with a key argument, the empty string included,
\* removes that key only and leaves every other key and value as it was;
\* clearData() without a key empties the store. The same holds through
\* TestUtils.clearStoredTestData.
C17_ClearOnlyKey ==
  lastData.op \in {"clearData", "clearStoredTestData"} =>
    testData = (IF lastData.key # UNDEFINED
                THEN mapDelete(lastData.before, lastData.key)
                ELSE EmptyMap)

\* ------------------------------------------------------ concurrent tasks
\* Test tasks run interleaved on one event loop: a task runs from one await
\* to the next without interruption, and another task may run while it is
\* suspended.
Tasks == TestNames

Passed(level) == IF Rank[level] >= Rank[logLevel] THEN 1 ELSE 0

\* TestLogger.pageState up to `await page.title()`; page.url() may throw.
taskPageStateCall(t, urlOk) ==
  /\ taskPc[t] = "idle" /\ Len(logs) < MaxLogs
  /\ IF urlOk
     THEN /\ taskPc' = [taskPc EXCEPT ![t] = "title"]
          /\ UNCHANGED <<logs, appends>>
     ELSE /\ logs' = warn(logs, logLevel, Msg("Failed to get page state", 0), t)
          /\ appends' = appends + Passed("warn")
          /\ UNCHANGED taskPc
  /\ UNCHANGED <<logLevel, runVars, loggerApiVars, fsVars, dataVars, tdVars, validated, utilVars>>

\* page.title() resolved: the task logs the page state.
taskTitleResolves(t) ==
  /\ taskPc[t] = "title" /\ Len(logs) < MaxLogs
  /\ logs' = info(logs, logLevel, Msg("Page State", 0), t)
  /\ appends' = appends + Passed("info")
  /\ taskPc' = [taskPc EXCEPT ![t] = "idle"]
  /\ UNCHANGED <<logLevel, runVars, loggerApiVars, fsVars, dataVars, tdVars, validated, utilVars>>

\* page.title() rejected: the catch block logs a warning.
taskTitleRejects(t) ==
  /\ taskPc[t] = "title" /\ Len(logs) < MaxLogs
  /\ logs' = warn(logs, logLevel, Msg("Failed to get page state", 0), t)
  /\ appends' = appends + Passed("warn")
  /\ taskPc' = [taskPc EXCEPT ![t] = "idle"]
  /\ UNCHANGED <<logLevel, runVars, loggerApiVars, fsVars, dataVars, tdVars, validated, utilVars>>

\* A running task logs an error directly.
taskError(t) ==
  /\ taskPc[t] = "idle" /\ Len(logs) < MaxLogs
  /\ logs' = error(logs, logLevel, Msg("message", 0), t)
  /\ appends' = appends + Passed("error")
  /\ UNCHANGED <<logLevel, runVars, loggerApiVars, fsVars, dataVars, taskPc, tdVars,
                 validated, utilVars>>

\* A running task calls TestLogger.clearLogs.
taskClearLogs(t) ==
  /\ taskPc[t] = "idle"
  /\ logs' = <<>>
  /\ appends' = 0
  /\ exportHistory' = cleared(exportHistory)
  /\ UNCHANGED <<logLevel, runVars, loggerApiVars, fsVars, dataVars, taskPc, tdVars,
                 validated, plainUtilVars>>

\* A running task calls TestLogger.setLogLevel.
taskSetLogLevel(t, level) ==
  /\ taskPc[t] = "idle"
  /\ logLevel' = level
  /\ UNCHANGED <<logs, runVars, loggerApiVars, extVars>>

NextTasks ==
  \/ \E t \in Tasks, l \in Levels : taskSetLogLevel(t, l)
  \/ \E t \in Tasks, urlOk \in BOOLEAN : taskPageStateCall(t, urlOk)
  \/ \E t \in Tasks : taskTitleResolves(t)
  \/ \E t \in Tasks : taskTitleRejects(t)
  \/ \E t \in Tasks : taskError(t)
  \/ \E t \in Tasks : taskClearLogs(t)
  \/ callStoreData("user", "1")
  \/ callClearData(UNDEFINED)

\* Two test tasks sharing the log store and the data store.
SpecTasks == Init /\ [][NextTasks]_vars

WellFormed(e) ==
  /\ DOMAIN e = {"level", "message", "testName"}
  /\ e.level \in Levels
  /\ e.testName \in Tasks

\* C12: the mutating store operations are atomic under any interleaving of
\* concurrent test tasks: the store holds as many entries as append calls
\* passed the level filter since the last clearLogs, every entry is complete,
\* and a storeData or clearData leaves the data store with exactly its effect.
C12_AtomicStores ==
  /\ Len(logs) = appends
  /\ \A i \in 1..Len(logs) : WellFormed(logs[i])
  /\ lastData.op = "storeData" => testData = mapSet(lastData.before, lastData.key, lastData.data)
  /\ lastData.op = "clearData" => testData = EmptyMap

\* Task a is suspended in pageState while the store holds entries of both tasks.
C12_Witness ==
  /\ taskPc["a"] = "title"
  /\ Len(logs) >= 2
  /\ \E i, j \in 1..Len(logs) : logs[i].testName = "a" /\ logs[j].testName = "b"
  /\ appends = Len(logs)

\* ---------------------------------------------------- export of the logs
RECURSIVE SumOver(_, _)
SumOver(f, S) ==
  IF S = {} THEN 0
  ELSE LET x == CHOOSE y \in S : TRUE IN f[x] + SumOver(f, S \ {x})

Carrying(s, t) == Cardinality({i \in 1..Len(s) : s[i].testName = t})

\* The serialized form of entry e: its fields, the test name only if it has one.
Serialized(r, e) ==
  /\ r.level = e.level
  /\ r.message = e.message
  /\ IF e.testName = UNDEFINED THEN "testName" \notin DOMAIN r
     ELSE "testName" \in DOMAIN r /\ r.testName = e.testName

\* C13: a successful exportLogs writes every entry stored at the time of the
\* call, in order, with a summary whose total is the number of entries, whose
\* per-level counts sum to total, and whose per-test count of each test name
\* is the number of entries carrying that name.
C13_ExportSummary ==
  (lastCall.op = "exportLogs" /\ lastCall.writable) =>
    LET f == files[lastCall.arg]
        b == lastCall.before
    IN /\ f.kind = "logs"
       /\ Len(f.logs) = Len(b)
       /\ \A i \in 1..Len(b) : Serialized(f.logs[i], b[i])
       /\ f.summary.total = Len(b)
       /\ SumOver(f.summary.byLevel, DOMAIN f.summary.byLevel) = f.summary.total
       /\ DOMAIN f.summary.byTest = {t \in TestNames : Carrying(b, t) > 0}
       /\ \A t \in DOMAIN f.summary.byTest : f.summary.byTest[t] = Carrying(b, t)

\* An export of two entries of different levels, one of them without a test name.
C13_Witness ==
  /\ lastCall.op = "exportLogs" /\ lastCall.writable
  /\ Len(lastCall.before) = 2
  /\ lastCall.before[1].level # lastCall.before[2].level
  /\ \E i \in 1..2 : lastCall.before[i].testName = UNDEFINED
  /\ \E i \in 1..2 : lastCall.before[i].testName \in TestNames
  /\ files[lastCall.arg].summary.total = 2

\* ------------------------------------------- export and import of the data
\* C14: an export whose directory creation or file write fails reports the
\* failure to its caller: the promise returned by TestLogger.exportLogs or
\* TestDataManager.exportData is rejected.
C14_ExportFailureReported ==
  /\ (lastCall.op = "exportLogs" /\ ~lastCall.writable) =>
       lastCall.settled = "rejected"
  /\ (lastData.op = "exportData" /\ ~lastData.result.writable) =>
       lastData.result.settled = "rejected"

\* C18: after exportData(f), clearData(), importData(f) the store returns,
\* for every key that existed when exportData was called, the value it held
\* then, and has no other keys.
C18_RoundTrip ==
  lastData.rt.stage = "imported" =>
    /\ \A k \in DOMAIN lastData.rt.store :
         getData(testData, k) = lastData.rt.store[k]
    /\ DOMAIN testData \subseteq DOMAIN lastData.rt.store

\* C19: importData replaces the store wholesale: after an import of a file
\* with a data object the keys of the store are exactly the keys of that
\* object; when the file cannot be read or parsed or has no data field the
\* store is left as it was.
C19_ImportReplaces ==
  lastData.op = "importData" =>
    LET c == files[lastData.key]
    IN IF c.kind = "data"
       THEN DOMAIN testData = DOMAIN c.data
       ELSE testData = lastData.before

\* An import dropped a key that the file does not have.
C19_Witness ==
  /\ lastData.op = "importData"
  /\ files[lastData.key].kind = "data"
  /\ DOMAIN files[lastData.key].data # {}
  /\ DOMAIN lastData.before \ DOMAIN files[lastData.key].data # {}
  /\ DOMAIN testData = DOMAIN files[lastData.key].data

\* ---------------------------------------------------------------- teardown
ExportSteps == {"generateTestSummary", "exportData", "exportLogs"}
FailedExport ==
  \E i \in 1..Len(tdTrace) : tdTrace[i].step \in ExportSteps /\ tdTrace[i].failed
ExportFailedEntry ==
  [level |-> "error", message |-> ExportFailedMsg, testName |-> UNDEFINED]
TeardownOrder ==
  <<"generateTestSummary", "exportData", "exportLogs", "cleanupTestData",
    "generatePerformanceReport">>

\* C15: an export failure never aborts the teardown: a failed export of the
\* logs or of the test data is caught and logged (an error entry in the log
\* store, a console.error line for the data), globalTeardown goes on with the
\* remaining steps in order, empties both stores, writes the performance
\* report if it can, and returns without throwing.
C15_ExportFailureNonFatal ==
  /\ tdPc # "threw"
  /\ (tdPc = "exportData" /\ tdTrace[1].failed) =>
       logs[Len(logs)] = ExportFailedEntry
  /\ (tdPc = "exportLogs" /\ tdTrace[2].failed) =>
       (console # <<>> /\ console[Len(console)] = ExportDataFailed)
  /\ (tdPc = "cleanup" /\ tdTrace[3].failed) =>
       \E i \in 1..Len(logs) : i >= Len(logs) - 1 /\ logs[i] = ExportFailedEntry
  /\ (tdPc = "done" /\ FailedExport) =>
       /\ [i \in 1..Len(tdTrace) |-> tdTrace[i].step] = TeardownOrder
       /\ testData = EmptyMap
       /\ \A i \in 1..Len(logs) : logs[i] # ExportFailedEntry
       /\ tdTrace[5].failed \/ files[ReportFile].kind = "report"

\* A teardown in which all three exports failed, started with data in the
\* store, ran to its end and wrote the report.
C15_Witness ==
  /\ tdPc = "done"
  /\ \A i \in 1..3 : tdTrace[i].failed
  /\ lastData.op = "storeData"
  /\ Len(console) = 1
  /\ files[ReportFile].kind = "report"
  /\ testData = EmptyMap

\* -------------------------------------------------------------- validation
\* The schema entries the data violates: the field is missing or has another type.
Violations(data, schema) ==
  {i \in 1..Len(schema) :
     \/ data.kind # "object"
     \/ schema[i].key \notin DOMAIN data.fields
     \/ typeOf(data.fields[schema[i].key]) # schema[i].type}

\* C20: validation reports and never raises: validateData, validateTestData
\* and validateCredentials return, for every input (null and non-object data
\* and absent user names and passwords included), a result with one error per
\* missing or wrongly typed schema field, and isValid true exactly when there
\* are no errors.
C20_ValidationNeverThrows ==
  validated.fn # "none" =>
    /\ validated.result.status = "returned"
    /\ validated.result.isValid = (validated.result.errors = <<>>)
    /\ validated.fn \in {"validateData", "validateTestData"} =>
         Len(validated.result.errors) =
           Cardinality(Violations(validated.data, validated.schema))

\* ---------------------------------------------------------- data generation
\* C21: custom fields win on key conflict: every key of customFields appears
\* in every record generateData and generateTestData return, with the custom
\* value, the keys id and uniqueId of a batch (count > 1) included.
C21_CustomFieldsWin ==
  generated.fn # "none" =>
    \A i \in 1..Len(generated.records) :
      \A k \in DOMAIN generated.customFields :
        /\ k \in DOMAIN generated.records[i]
        /\ generated.records[i][k] = generated.customFields[k]

\* ------------------------------------------------------------ data summary
\* The text of an object without entries.
EmptySerialization == <<"{", "}">>

\* C22: getDataSummary returns totalEntries equal to the number of keys,
\* entriesByType summing to totalEntries, and a memoryUsage that is the length
\* of the serialized contents: that of the empty object exactly when the store
\* is empty, and another one when the store holds entries.
C22_SummaryConsistent ==
  lastData.op = "getDataSummary" =>
    LET r == lastData.result
    IN /\ r.totalEntries = Cardinality(DOMAIN testData)
       /\ SumOver(r.entriesByType, DOMAIN r.entriesByType) = r.totalEntries
       /\ (r.memoryUsage = Len(EmptySerialization)) <=> (DOMAIN testData = {})

\* The two counts of the summary, without its memoryUsage.
C22_CountsConsistent ==
  lastData.op = "getDataSummary" =>
    LET r == lastData.result
    IN /\ r.totalEntries = Cardinality(DOMAIN testData)
       /\ SumOver(r.entriesByType, DOMAIN r.entriesByType) = r.totalEntries

\* ------------------------------------------------------------- screenshots
\* C23: a screenshot failure never replaces the outcome of the operation it
\* accompanies: with takeScreenshot enabled, an operation one of whose own
\* steps failed rejects with that step's error, and an operation all of whose
\* steps succeeded resolves, whatever the page.screenshot calls do.
C23_ScreenshotFailureSwallowed ==
  (guarded.fn # "none" /\ guarded.takeScreenshot) =>
    guarded.error = IF guarded.failed THEN OperationError ELSE NoError

\* The same with the option off, or with every screenshot succeeding.
C23_WithoutScreenshotFailure ==
  (/\ guarded.fn # "none"
   /\ \/ ~guarded.takeScreenshot
      \/ \A n \in 1..MaxShots : guarded.env[n]) =>
    guarded.error = IF guarded.failed THEN OperationError ELSE NoError

\* ------------------------------------------------- fillWithRetry, validation
\* C24: fillWithRetry called with validate = true and retries >= 1 returns
\* normally only if the value read back in its last attempt equals the
\* requested one; a mismatch counts as a failed attempt: it is retried, or
\* thrown as the exhaustion error after the last attempt.
C24_ValidatedFill ==
  (helper = "fillWithRetry" /\ opts.validate /\ opts.retries >= 1) =>
    /\ pc = "returned" =>
         /\ actualValue = FillValue
         /\ trace[Len(trace)] = Ev("resolved", attempt)
    /\ (pc # "idle" /\ lastError = ValueMismatch(attempt)) =>
         /\ actualValue # FillValue
         /\ IF attempt = opts.retries
            THEN /\ pc = "threw"
                 /\ outcome.value =
                      WrappedError("Failed to fill element after", opts.retries,
                                   ValueMismatch(attempt))
            ELSE pc = "sleeping"

\* A value mismatch in the first attempt, a match in the second, and return.
C24_Witness ==
  /\ helper = "fillWithRetry" /\ opts.validate /\ opts.retries >= 2
  /\ pc = "returned" /\ attempt = 2
  /\ lastError = ValueMismatch(1)
  /\ actualValue = FillValue

\* ------------------------------------------------ return without a success
\* C25: for every value of the retries / maxRetries option, 0 included, a
\* retry wrapper that returns normally has completed its action at least
\* once: some invocation (for the page helpers, some attempt's steps) resolved.
C25_ReturnMeansSuccess ==
  (helper # "none" /\ pc = "returned") =>
    \E n \in 1..Len(trace) : trace[n].ev = "resolved"

\* The same for the wrappers that take a policy, and for the page helpers
\* called with retries >= 1.
C25_ExceptPageHelpersWithoutAttempts ==
  (/\ helper # "none"
   /\ pc = "returned"
   /\ helper \in PolicyHelpers \/ opts.retries >= 1) =>
    \E n \in 1..Len(trace) : trace[n].ev = "resolved"

\* ------------------------------------------------------------ ErrorHandler
\* C26: whenever no logError call is in progress, errorCount is the number of
\* entries of errorLog and getErrorStats().totalErrors is the sum of its
\* errorsByTest, for every interleaving of logError calls with each other
\* and with clearErrorLog.
C26_CountMatchesLog ==
  LoggingErrors = {} =>
    LET stats == getErrorStats(errorCount, errorLog)
    IN /\ errorCount = Len(errorLog)
       /\ stats.totalErrors = SumOver(stats.errorsByTest, DOMAIN stats.errorsByTest)

\* In every state, the count is the number of entries plus the number of
\* logError calls in progress, as long as clearErrorLog is not called.
C26_CountWithoutClear ==
  errorCount = Len(errorLog) + Cardinality(LoggingErrors)

\* ------------------------------------------------- the order of the teardown
StepsRun == [i \in 1..Len(tdTrace) |-> tdTrace[i].step]
Ran(name) == \E i \in 1..Len(tdTrace) : tdTrace[i].step = name
Succeeded(name) == \E i \in 1..Len(tdTrace) : tdTrace[i] = TdStep(name, FALSE)
\* The log store as generatePerformanceReport finds it: the entries appended
\* since cleanupTestData cleared it.
LogsAfterClear ==
  tdInfo(tdInfo(<<>>, logLevel, "Test data cleanup completed"), logLevel,
         "Generating performance report")

\* A warning was logged, and stored, just before the teardown.
WarnedBefore == lastCall.op = "warn" /\ shouldLog(logLevel, "warn")

\* C27: globalTeardown runs summary, export, cleanup, performance report in
\* this order: both stores are exported before either is cleared (the files
\* written hold what the stores held before the teardown), the data store is
\* empty when globalTeardown returns, and the report is computed after the
\* cleanup: zero data entries, and of the logs only the entries appended
\* after the clear.
C27_TeardownOrder ==
  /\ IsPrefix(StepsRun, TeardownOrder)
  /\ tdPc = "done" => (StepsRun = TeardownOrder /\ testData = EmptyMap)
  /\ Ran("cleanupTestData") =>
       /\ Ran("exportData") /\ Ran("exportLogs")
       /\ (Succeeded("exportData") /\ lastData.op = "storeData") =>
            files[DataFile] = exportedData(mapSet(EmptyMap, lastData.key, lastData.data))
       /\ (Succeeded("exportLogs") /\ WarnedBefore) =>
            /\ files[LogsFile].kind = "logs"
            /\ \E i \in 1..Len(files[LogsFile].logs) :
                 files[LogsFile].logs[i].level = "warn"
  /\ ~Ran("cleanupTestData") =>
       /\ lastData.op = "storeData" => testData # EmptyMap
       /\ WarnedBefore => \E i \in 1..Len(logs) : logs[i].level = "warn"
  /\ Succeeded("generatePerformanceReport") =>
       /\ files[ReportFile].kind = "report"
       /\ files[ReportFile].testData.totalEntries = 0
       /\ files[ReportFile].logs.total = Len(LogsAfterClear)
       /\ files[ReportFile].logs.warnings = 0

\* A teardown that found a warning in the log store and an entry in the data
\* store, exported both, cleared them, and wrote the report.
C27_Witness ==
  /\ tdPc = "done"
  /\ lastData.op = "storeData" /\ WarnedBefore
  /\ Succeeded("exportData") /\ Succeeded("exportLogs")
  /\ Succeeded("generatePerformanceReport")
  /\ files[DataFile].summary.totalEntries = 1
  /\ files[LogsFile].summary.total > files[ReportFile].logs.total
  /\ files[ReportFile].logs.total = 2

\* --------------------------------------------------------- exportTestData
\* The entries a call of exportTestData appended.
Appended(r) == SubSeq(r.logsAfter, Len(r.logsBefore) + 1, Len(r.logsAfter))
ExportedDataEntry(t) == [level |-> "info", message |-> ExportedDataMsg, testName |-> t]
ExportTestDataFailedEntry(t) ==
  [level |-> "error", message |-> ExportTestDataFailedMsg, testName |-> t]

\* C28: TestUtils.exportTestData appends the info entry 'Exported test data
\* to file' only when the file was written; when the write fails it appends
\* the error entry 'Failed to export test data' and rethrows the failure.
C28_ExportTestDataReports ==
  lastData.op = "exportTestData" =>
    LET r == lastData.result
    IN /\ IsPrefix(r.logsBefore, r.logsAfter)
       /\ IF r.writable
          THEN /\ r.settled = "resolved"
               /\ \E t \in CallerTestNames :
                    Appended(r) = IF shouldLog(r.level, "info")
                                  THEN <<ExportedDataEntry(t)>> ELSE <<>>
          ELSE /\ r.settled = "rejected"
               /\ \E t \in CallerTestNames : Appended(r) = <<ExportTestDataFailedEntry(t)>>

\* The half of it that concerns a file that was written.
C28_WrittenExportLogged ==
  (lastData.op = "exportTestData" /\ lastData.result.writable) =>
    LET r == lastData.result
    IN /\ r.settled = "resolved"
       /\ r.file = exportedData(lastData.before)
       /\ IsPrefix(r.logsBefore, r.logsAfter)
       /\ \E t \in CallerTestNames :
            Appended(r) = IF shouldLog(r.level, "info")
                          THEN <<ExportedDataEntry(t)>> ELSE <<>>

\* ------------------------------------------- the entry about the export
ExportedEntry(filename) ==
  [level |-> "info", message |-> ExportedMsg(filename), testName |-> UNDEFINED]
\* The file holds an entry about an export.
HoldsExportedEntry(f) ==
  \E i \in 1..Len(f.logs) : \E g \in FileNames : f.logs[i].message = ExportedMsg(g)

\* What a successful export leaves: the file holds exactly the entries stored
\* at the call, and the store one more entry (if info passes the filter),
\* which the file does not hold.
ExportThenEntry ==
  LET f == files[lastCall.arg]
      b == lastCall.before
  IN /\ f.kind = "logs"
     /\ f.logs = [i \in 1..Len(b) |-> stringifyEntry(b[i])]
     /\ logs = IF shouldLog(logLevel, "info")
               THEN Append(b, ExportedEntry(lastCall.arg)) ELSE b

\* C29 as claimed: the file written by exportLogs holds exactly the entries
\* stored at the call; the export adds one entry to the store, absent from
\* its own file but present in the file of any later export.
C29_Claimed ==
  (lastCall.op = "exportLogs" /\ lastCall.writable) =>
    /\ ExportThenEntry
    /\ lastCall.history # "none" => HoldsExportedEntry(files[lastCall.arg])

\* C29: the file written by exportLogs holds exactly the entries stored at
\* the call; the export adds one entry to the store (when info passes the
\* filter), absent from its own file but present in the file of any later
\* export made before the store is cleared.
C29_ExportedEntryAfterWrite ==
  (lastCall.op = "exportLogs" /\ lastCall.writable) =>
    /\ ExportThenEntry
    /\ lastCall.history = "stored" => HoldsExportedEntry(files[lastCall.arg])

\* A second export: its file holds the entry of the first, the store the
\* entries of both.
C29_Witness ==
  /\ lastCall.op = "exportLogs" /\ lastCall.writable
  /\ lastCall.history = "stored"
  /\ shouldLog(logLevel, "info")
  /\ HoldsExportedEntry(files[lastCall.arg])
  /\ Len(files[lastCall.arg].logs) = Len(logs) - 1
  /\ logs[Len(logs)] = ExportedEntry(lastCall.arg)

\* -------------------------------------------------------- waitForFormReady
FormFinished == form.pc \in {"returned", "threw"}
\* What holds of waitForFormReady at every moment.
FormSafety ==
  form.pc # "idle" =>
    /\ form.maxWait = IF form.timeout = NoTimeout \/ form.timeout = Timeout(0)
                      THEN DefaultTimeout ELSE form.timeout.ms
    /\ form.pc = "returned" => (form.lastPoll = "ready" /\ form.error = NoFormWait.error)
    /\ form.pc = "threw" =>
         /\ form.error = FormNotReady(form.maxWait)
         /\ form.elapsed >= form.maxWait
         /\ form.lastPoll # "ready"
    /\ form.pc = "sleeping" =>
         /\ form.sleep = PollInterval
         /\ form.lastPoll \in {"not ready", "error"}
         /\ form.error = NoFormWait.error
    /\ form.pc = "polling" => (form.elapsed < form.maxWait /\ form.error = NoFormWait.error)

====
